---- MODULE Spec2Model ----
(***************************************************************************)
(* A model of the TAC interpreter: Scanner (src/src/scanner.rs), Compiler  *)
(* (src/src/compiler.rs), Chunk (src/src/chunk.rs), Value                  *)
(* (src/src/value.rs) and VirtualMachine (src/src/vm.rs).                  *)
(*                                                                         *)
(* The source text is a TLA+ string; a character is a string of length 1   *)
(* and NoChar (the empty string) stands for Option::None of peek().        *)
(* Integers are modelled with IntBits bits instead of 64 (TLC's integers   *)
(* are 32 bits wide): every wrapping operation is taken modulo 2^IntBits.  *)
(* A CASE lists its arms in the order of the arms of the code's `match`,   *)
(* and is read as the match is: the first arm that applies is taken.       *)
(*                                                                         *)
(* Spec is one call of interpret() on a new machine; FairSpec adds that    *)
(* the call keeps running. ReuseSpec makes further calls on the same       *)
(* machine. LiteralSpec, OperatorSpec, CharSpec, IfSpec and LongSpec are   *)
(* Spec on families of programs (number literals, binary operators,        *)
(* character literals, conditional jumps, programs of many lines);         *)
(* ExprSpec and RecoverSpec likewise (expressions of up to three operands, *)
(* erroneous lines followed by other lines). ScanSpec calls next_token on  *)
(* a scanner. ChunkSpec also runs chunks written through the Chunk         *)
(* interface; NameSpec calls Chunk::add_name on a chunk, LineSpec          *)
(* Chunk::write and Chunk::get_line, and PoolSpec Chunk::add_constant and  *)
(* Compiler::compile on a chunk whose constant pool is nearly full.        *)
(* TokenSpec is Spec on every short sequence of tokens, and EndSpec the    *)
(* same with fairness, on sequences that hold Error tokens. VmSpec runs    *)
(* chunks with variables, assignments, calls and returns, which the        *)
(* compiler does not emit.                                                 *)
(***************************************************************************)
EXTENDS Integers, Sequences, FiniteSets, TLC

\* ------------------------------------------------------------------ bounds

\* Width in bits of the modelled u64 / i64 (64 in the program).
IntBits == 8
\* Largest small literal of the `print a op b` family (the family also holds
\* the two largest i64 literals).
MaxLit == 2
\* Longest program, in lines, drawn from Lines.
MaxLines == 2
\* F64 values are kept as fixed-point numbers with this many decimal digits.
FracDigits == 2
\* `stdout` keeps the first MaxOut characters written to standard output (a
\* program that loops may print without end).
MaxOut == 8

RECURSIVE Pow(_, _)
Pow(b, e) == IF e = 0 THEN 1 ELSE b * Pow(b, e - 1)

UMod == Pow(2, IntBits)
I64_MAX == Pow(2, IntBits - 1) - 1
I64_MIN == 0 - Pow(2, IntBits - 1)
U64_MAX == UMod - 1
FracScale == Pow(10, FracDigits)

\* ------------------------------------------------------------- characters

NoChar == ""

Digits == {"0", "1", "2", "3", "4", "5", "6", "7", "8", "9"}

Letters ==
  {"a", "b", "c", "d", "e", "f", "g", "h", "i", "j", "k", "l", "m",
   "n", "o", "p", "q", "r", "s", "t", "u", "v", "w", "x", "y", "z",
   "A", "B", "C", "D", "E", "F", "G", "H", "I", "J", "K", "L", "M",
   "N", "O", "P", "Q", "R", "S", "T", "U", "V", "W", "X", "Y", "Z"}

is_ascii_digit(c) == c \in Digits
is_ascii_alphabetic(c) == c \in Letters
is_ascii_alphanumeric(c) == c \in Digits \cup Letters
\* char::is_whitespace on the characters a source of the model can hold
is_whitespace(c) == c \in {" ", "\t", "\r", "\n"}

CharAt(src, i) == SubSeq(src, i + 1, i + 1)

\* The characters of the model in code point order (char's PartialOrd).
CharOrder == "\t\n\r !\"#%'()*+,-./0123456789:;<=>@ABCDEFGHIJKLMNOPQRSTUVWXYZ[]_abcdefghijklmnopqrstuvwxyz{}"

\* -------------------------------------------------------------- the token

Token(kind, lexeme, line) == [kind |-> kind, lexeme |-> lexeme, line |-> line]

synthetic(text) == Token("Error", text, 0)

\* The statements of a function body run in sequence: Then(x, F) is F(x),
\* the state x the earlier statements leave being computed once.
Then(x, F(_)) == CHOOSE r \in {F(v) : v \in {x}} : TRUE

\* ------------------------------------------------------------ the scanner
\* A scanner is [start, current, line]; the source is passed alongside.

Scanner_new == [start |-> 0, current |-> 0, line |-> 1]

peek(src, sc) == IF sc.current < Len(src) THEN CharAt(src, sc.current) ELSE NoChar

is_at_end(src, sc) == sc.current = Len(src)

Scanner_advance(src, sc) ==
  [sc EXCEPT !.current = sc.current + 1,
             !.line = IF peek(src, sc) = "\n" THEN sc.line + 1 ELSE sc.line]

Scanner_match_advance(src, sc, expected) == peek(src, sc) = expected

\* `while self.match_pred_advance(|c| c in set) {}`
RECURSIVE advance_while_in(_, _, _)
advance_while_in(src, sc, set) ==
  IF peek(src, sc) # NoChar /\ peek(src, sc) \in set
  THEN Then(Scanner_advance(src, sc), LAMBDA s : advance_while_in(src, s, set))
  ELSE sc

\* `while self.match_pred_advance(|c| c != stop) {}`
RECURSIVE advance_while_not(_, _, _)
advance_while_not(src, sc, stop) ==
  IF peek(src, sc) # NoChar /\ peek(src, sc) # stop
  THEN Then(Scanner_advance(src, sc), LAMBDA s : advance_while_not(src, s, stop))
  ELSE sc

lexeme(src, sc) == SubSeq(src, sc.start + 1, sc.current)

make_token(src, sc, kind) == Token(kind, lexeme(src, sc), sc.line)

error_token(sc, message) == Token("Error", message, sc.line)

\* The inner loop of skip_non_tokens that consumes a comment's characters.
RECURSIVE skip_comment(_, _)
skip_comment(src, sc) ==
  IF peek(src, sc) # NoChar /\ peek(src, sc) # "\n"
  THEN Then(Scanner_advance(src, sc), LAMBDA s : skip_comment(src, s))
  ELSE sc

\* The `#` test sits after the `match c.is_whitespace()` whose false arm
\* breaks out of the loop, so it is only reached with a whitespace c.
RECURSIVE skip_non_tokens(_, _)
skip_non_tokens(src, sc) ==
  CASE peek(src, sc) = NoChar \/ peek(src, sc) = "\n" -> sc
    [] ~is_whitespace(peek(src, sc)) -> sc
    [] is_whitespace(peek(src, sc)) /\ peek(src, sc) = "#" ->
         Then(skip_comment(src, Scanner_advance(src, Scanner_advance(src, sc))),
              LAMBDA s : skip_non_tokens(src, s))
    [] OTHER -> Then(Scanner_advance(src, sc), LAMBDA s : skip_non_tokens(src, s))

check_keyword(lx) ==
  CASE lx = "if" -> "If"
    [] lx = "ifFalse" -> "IfFalse"
    [] lx = "goto" -> "Goto"
    [] lx = "param" -> "Param"
    [] lx = "call" -> "Call"
    [] lx = "return" -> "Return"
    [] lx = "true" -> "True"
    [] lx = "false" -> "False"
    [] lx = "print" -> "Print"
    [] lx = "println" -> "PrintLn"
    [] lx = "halt" -> "Halt"
    [] lx = "scan" -> "Scan"
    [] lx = "u64" -> "U64KW"
    [] lx = "i64" -> "I64KW"
    [] lx = "f64" -> "F64KW"
    [] lx = "char" -> "CharKW"
    [] lx = "bool" -> "BoolKW"
    [] OTHER -> "Identifier"

\* Each scanning function returns [tok, sc]: the token and the scanner after it.
Scanned(tok, sc) == [tok |-> tok, sc |-> sc]

\* string(): `sc` is the scanner after the loop over the string's characters
string_close(src, sc) ==
  IF is_at_end(src, sc)
  THEN Scanned(error_token(sc, "Unterminated string"), sc)
  ELSE Scanned(make_token(src, Scanner_advance(src, sc), "String"), Scanner_advance(src, sc))

Scanner_string(src, sc) ==
  Then(advance_while_not(src, sc, "\""), LAMBDA s : string_close(src, s))

\* char(): `sc` is the scanner after the loop that counted `count` characters
char_close(src, sc, count) ==
  CASE is_at_end(src, sc) -> Scanned(error_token(sc, "Unterminated character"), sc)
    [] ~is_at_end(src, sc) /\ count > 1 ->
         Scanned(error_token(Scanner_advance(src, sc),
                             "Character literal may only contain one character"),
                 Scanner_advance(src, sc))
    [] OTHER -> Scanned(make_token(src, Scanner_advance(src, sc), "Char"),
                        Scanner_advance(src, sc))

char_counted(src, sc0, sc) == char_close(src, sc, sc.current - sc0.current)

Scanner_char(src, sc) ==
  Then(advance_while_not(src, sc, "'"), LAMBDA s : char_counted(src, sc, s))

Made(src, sc, kind) == Scanned(make_token(src, sc, kind), sc)

\* number(): `sc` is the scanner after the leading digits
number_fraction(src, sc) ==
  IF Scanner_match_advance(src, sc, ".")
  THEN advance_while_in(src, Scanner_advance(src, sc), Digits)
  ELSE sc

\* number(): `sc` is the scanner after the digits and the fraction
number_suffix(src, sc) ==
  Then(advance_while_in(src, sc, Digits \cup Letters), LAMBDA s : Made(src, s, "Number"))

\* number(): `sc` is the scanner after the leading digits
number_digits(src, sc) ==
  Then(number_fraction(src, sc), LAMBDA s : number_suffix(src, s))

Scanner_number(src, sc) ==
  Then(advance_while_in(src, sc, Digits), LAMBDA s : number_digits(src, s))

identifier_made(src, sc) == Made(src, sc, check_keyword(lexeme(src, sc)))

Scanner_identifier(src, sc) ==
  Then(advance_while_in(src, sc, Digits \cup Letters \cup {"_"}),
       LAMBDA s : identifier_made(src, s))

SingleCharKind(c) ==
  CASE c = "\n" -> "NewLine"
    [] c = "(" -> "LeftParen"
    [] c = ")" -> "RightParen"
    [] c = "{" -> "LeftBrace"
    [] c = "}" -> "RightBrace"
    [] c = "[" -> "LeftBracket"
    [] c = "]" -> "RightBracket"
    [] c = ";" -> "Semicolon"
    [] c = "," -> "Comma"
    [] c = "." -> "Dot"
    [] c = "-" -> "Minus"
    [] c = "+" -> "Plus"
    [] c = "/" -> "Slash"
    [] c = "*" -> "Star"
    [] c = "%" -> "Percent"
    [] c = ":" -> "Colon"
    [] OTHER -> "None"

\* A one or two character operator: the token is `two` when `second` follows
TwoChar(src, sc, second, two, one) ==
  IF Scanner_match_advance(src, sc, second)
  THEN Made(src, Scanner_advance(src, sc), two)
  ELSE Made(src, sc, one)

\* The match of next_token() on the character c just consumed
scan_char(src, c, sc) ==
  CASE SingleCharKind(c) # "None" -> Made(src, sc, SingleCharKind(c))
    [] c = "!" -> TwoChar(src, sc, "=", "BangEqual", "Bang")
    [] c = "=" -> TwoChar(src, sc, "=", "EqualEqual", "Equal")
    [] c = "<" /\ Scanner_match_advance(src, sc, "<") -> Made(src, Scanner_advance(src, sc), "ShiftLeft")
    [] c = "<" /\ ~Scanner_match_advance(src, sc, "<") -> TwoChar(src, sc, "=", "LessEqual", "Less")
    [] c = ">" /\ Scanner_match_advance(src, sc, ">") -> Made(src, Scanner_advance(src, sc), "ShiftRight")
    [] c = ">" /\ ~Scanner_match_advance(src, sc, ">") -> TwoChar(src, sc, "=", "GreaterEqual", "Greater")
    [] c = "\"" -> Scanner_string(src, sc)
    [] c = "'" -> Scanner_char(src, sc)
    [] is_ascii_alphabetic(c) \/ c = "_" -> Scanner_identifier(src, sc)
    [] is_ascii_digit(c) -> Scanner_number(src, sc)
    [] OTHER -> Scanned(error_token(sc, "Unexpected character"), sc)

\* next_token() once `self.start = self.current` is done
scan_token(src, sc) ==
  IF is_at_end(src, sc) THEN Made(src, sc, "Eof")
  ELSE Then(Scanner_advance(src, sc), LAMBDA s : scan_char(src, peek(src, sc), s))

start_token_kept(sc) == sc

start_token(sc) == [sc EXCEPT !.start = sc.current]

next_token(src, sc) ==
  Then(skip_non_tokens(src, sc), LAMBDA s : scan_token(src, start_token(s)))

\* -------------------------------------------------------------- decimal
\* Display of integers (`write!(f, "{}", val)`) and str::parse, digit by digit.

DigitChar(d) == SubSeq("0123456789", d + 1, d + 1)
DigitVal(c) == CHOOSE d \in 0..9 : DigitChar(d) = c

RECURSIVE DecNat(_)
DecNat(n) == IF n < 10 THEN DigitChar(n) ELSE DecNat(n \div 10) \o DigitChar(n % 10)

Dec(n) == IF n < 0 THEN "-" \o DecNat(0 - n) ELSE DecNat(n)

\* <unsigned integer type>::from_str on `text`: every character must be a
\* digit, the text non-empty, and the value at most `max`.
\* Returns -1 for Err(ParseIntError).
RECURSIVE ParseDigits(_, _, _)
ParseDigits(text, acc, max) ==
  IF text = "" THEN acc
  ELSE LET c == SubSeq(text, 1, 1) IN
       IF ~is_ascii_digit(c) THEN -1
       ELSE LET v == acc * 10 + DigitVal(c) IN
            IF v > max THEN -1 ELSE ParseDigits(SubSeq(text, 2, Len(text)), v, max)

ParseInt(text, max) == IF text = "" THEN -1 ELSE ParseDigits(text, 0, max)

\* Position (0-based) of the first character of `text` from `i` on that is
\* in `set`, or Len(text) when there is none.
RECURSIVE FindFirst(_, _, _)
FindFirst(text, i, set) ==
  IF i >= Len(text) THEN Len(text)
  ELSE IF CharAt(text, i) \in set THEN i
  ELSE FindFirst(text, i + 1, set)

Contains(text, ch) == FindFirst(text, 0, {ch}) < Len(text)

\* f64::from_str on digits with at most one dot, kept as a fixed-point
\* number of FracDigits decimals (further decimals are cut off).
\* Returns -1 for Err(ParseFloatError).
ParseFloat(text) ==
  LET dot == FindFirst(text, 0, {"."})
      ip == SubSeq(text, 1, dot)
      fp == SubSeq(text, dot + 2, Len(text))
      fcut == SubSeq(fp \o "000000000", 1, FracDigits)
      iv == IF ip = "" THEN 0 ELSE ParseDigits(ip, 0, Pow(10, Len(ip)))
      fv == ParseDigits(fcut, 0, FracScale)
  IN IF (ip = "" /\ fp = "") \/ iv < 0 \/ fv < 0 \/ Contains(fp, ".") THEN -1
     ELSE iv * FracScale + fv

\* --------------------------------------------------------------- values
\* Value of value.rs: a tag and a payload.  F64 payloads are fixed-point
\* (units of 1/FracScale), Bool payloads TRUE/FALSE, Char payloads a character.

F64(v) == [type |-> "F64", val |-> v]
U64(v) == [type |-> "U64", val |-> v]
I64(v) == [type |-> "I64", val |-> v]
Bool(v) == [type |-> "Bool", val |-> v]
Char(v) == [type |-> "Char", val |-> v]
Addr(v) == [type |-> "Addr", val |-> v]

type_info(v) ==
  CASE v.type = "F64" -> "f64"
    [] v.type = "U64" -> "u64"
    [] v.type = "I64" -> "i64"
    [] v.type = "Bool" -> "bool"
    [] v.type = "Char" -> "char"
    [] v.type = "Addr" -> "addr"

\* Digits of a fixed-point fraction, trailing zeros dropped.
RECURSIVE FracText(_, _)
FracText(f, digits) ==
  IF f = 0 \/ digits = 0 THEN ""
  ELSE LET unit == Pow(10, digits - 1) IN
       DigitChar(f \div unit) \o FracText(f % unit, digits - 1)

DisplayF64(v) ==
  LET a == IF v < 0 THEN 0 - v ELSE v
      body == DecNat(a \div FracScale) \o
              (IF a % FracScale = 0 THEN "" ELSE "." \o FracText(a % FracScale, FracDigits))
  IN IF v < 0 THEN "-" \o body ELSE body

\* impl Display for Value
Display(v) ==
  CASE v.type = "F64" -> DisplayF64(v.val)
    [] v.type = "U64" -> Dec(v.val)
    [] v.type = "I64" -> Dec(v.val)
    [] v.type = "Bool" -> (IF v.val THEN "true" ELSE "false")
    [] v.type = "Char" -> v.val
    [] v.type = "Addr" -> "addr(" \o Dec(v.val) \o ")"

\* u64 / i64 wrapping to the modelled width
WrapU(n) == n % UMod
WrapI(n) == ((n - I64_MIN) % UMod) + I64_MIN

\* An operator's outcome: Ok(value), Err(message), or a Rust panic.
Ok(v) == [kind |-> "Ok", val |-> v, msg |-> ""]
Err(m) == [kind |-> "Err", val |-> Bool(FALSE), msg |-> m]
Panic(m) == [kind |-> "Panic", val |-> Bool(FALSE), msg |-> m]

NotSupported(op, a, b) ==
  Err("Operator '" \o op \o "' not supported between values of type '"
      \o type_info(a) \o "' and '" \o type_info(b) \o "'")

Same(a, b, t) == a.type = t /\ b.type = t

\* Addition that does not wrap
Value_add_unwrapped(a, b) ==
  IF a.type = b.type /\ a.type \in {"F64", "U64", "I64"}
  THEN Ok([type |-> a.type, val |-> a.val + b.val])
  ELSE NotSupported("+", a, b)

Value_add(a, b) ==
  CASE Same(a, b, "F64") -> Ok(F64(a.val + b.val))
    [] Same(a, b, "U64") -> Ok(U64(WrapU(a.val + b.val)))
    [] Same(a, b, "I64") -> Ok(I64(WrapI(a.val + b.val)))
    [] OTHER -> NotSupported("+", a, b)

Value_sub(a, b) ==
  CASE Same(a, b, "F64") -> Ok(F64(a.val - b.val))
    [] Same(a, b, "U64") -> Ok(U64(WrapU(a.val - b.val)))
    [] Same(a, b, "I64") -> Ok(I64(WrapI(a.val - b.val)))
    [] OTHER -> NotSupported("-", a, b)

\* Truncating division and remainder of Rust's integers
Abs(n) == IF n < 0 THEN 0 - n ELSE n
TruncDiv(a, b) ==
  IF (a < 0) = (b < 0) THEN Abs(a) \div Abs(b) ELSE 0 - (Abs(a) \div Abs(b))
TruncRem(a, b) == a - b * TruncDiv(a, b)

Value_mul(a, b) ==
  CASE Same(a, b, "F64") -> Ok(F64(TruncDiv(a.val * b.val, FracScale)))
    [] Same(a, b, "U64") -> Ok(U64(WrapU(a.val * b.val)))
    [] Same(a, b, "I64") -> Ok(I64(WrapI(a.val * b.val)))
    [] OTHER -> NotSupported("*", a, b)

is_numeric_zero(v) == v.type \in {"F64", "I64", "U64"} /\ v.val = 0

Value_div(a, b) ==
  CASE a.type \in {"F64", "I64", "U64"} /\ is_numeric_zero(b) -> Err("Division by 0")
    [] Same(a, b, "F64") -> Ok(F64(TruncDiv(a.val * FracScale, b.val)))
    [] Same(a, b, "U64") -> Ok(U64(a.val \div b.val))
    [] Same(a, b, "I64") ->
         IF a.val = I64_MIN /\ b.val = -1
         THEN Panic("attempt to divide with overflow")
         ELSE Ok(I64(TruncDiv(a.val, b.val)))
    [] OTHER -> NotSupported("/", a, b)

Value_rem_same(a, b) ==
  CASE a.type \in {"F64", "I64", "U64"} /\ a.type = b.type /\ is_numeric_zero(b) ->
         Err("Division by 0")
    [] OTHER -> NotSupported("%", a, b)

Value_rem(a, b) ==
  CASE a.type \in {"F64", "I64", "U64"} /\ is_numeric_zero(b) -> Err("Division by 0")
    [] Same(a, b, "F64") -> Ok(F64(TruncRem(a.val, b.val)))
    [] Same(a, b, "U64") -> Ok(U64(a.val % b.val))
    [] Same(a, b, "I64") ->
         IF a.val = I64_MIN /\ b.val = -1
         THEN Panic("attempt to calculate the remainder with overflow")
         ELSE Ok(I64(TruncRem(a.val, b.val)))
    [] OTHER -> NotSupported("%", a, b)

Value_lt(a, b) ==
  CASE a.type = b.type /\ a.type \in {"F64", "U64", "I64"} -> Ok(Bool(a.val < b.val))
    [] Same(a, b, "Char") ->
         Ok(Bool(a.val # b.val /\ FindFirst(CharOrder, 0, {a.val}) < FindFirst(CharOrder, 0, {b.val})))
    [] OTHER -> NotSupported("<", a, b)

Value_gt(a, b) ==
  CASE a.type = b.type /\ a.type \in {"F64", "U64", "I64"} -> Ok(Bool(a.val > b.val))
    [] Same(a, b, "Char") ->
         Ok(Bool(a.val # b.val /\ FindFirst(CharOrder, 0, {a.val}) > FindFirst(CharOrder, 0, {b.val})))
    [] OTHER -> NotSupported(">", a, b)

Value_eq_loose(a, b) == Ok(Bool(a.type = b.type /\ a.val = b.val))

Value_eq(a, b) ==
  CASE a.type = b.type /\ a.type \in {"F64", "U64", "I64", "Bool", "Char"} -> Ok(Bool(a.val = b.val))
    [] OTHER -> NotSupported("==", a, b)

\* `overflow_checks`: whether the build traps integer overflow (a debug
\* build) or wraps (a release build) in `-(*val)`.
arithmetic_negate(v, overflow_checks) ==
  CASE v.type = "F64" -> Ok(F64(0 - v.val))
    [] v.type = "U64" -> Err("It is not possible to negate a number of type u64")
    [] v.type = "I64" ->
         IF v.val = I64_MIN /\ overflow_checks
         THEN Panic("attempt to negate with overflow")
         ELSE Ok(I64(WrapI(0 - v.val)))
    [] v.type = "Bool" -> Err("It is not possible to arithmetically negate a boolean")
    [] v.type = "Char" -> Err("It is not possible to negate a character")
    [] v.type = "Addr" -> Err("It is not possible to negate an address")

logic_negate(v) ==
  IF v.type = "Bool" THEN Ok(Bool(~v.val))
  ELSE Err("Operator '!' not supported for value of type " \o type_info(v))

\* `b.try_into().unwrap_or(u32::MAX)` then wrapping_shl / wrapping_shr, which
\* reduce the count modulo the width.  The model's u32 has IntBits - 1 bits.
U32_MAX == Pow(2, IntBits - 1) - 1
ShiftCount(b) == (IF b > U32_MAX THEN U32_MAX ELSE b) % IntBits

\* The shift by a non-negative count; `left` tells shl from shr.  shl and shr
\* call each other with -b for a negative count b.
ShiftBy(a, b, left, wrap(_)) ==
  IF left THEN wrap(a * Pow(2, ShiftCount(b))) ELSE a \div Pow(2, ShiftCount(b))

Shift(a, b, left, op) ==
  CASE Same(a, b, "U64") -> Ok(U64(ShiftBy(a.val, b.val, left, WrapU)))
    [] a.type \in {"U64", "I64"} /\ b.type = "I64" ->
         \* -b of i64::MIN panics (overflow checks) or wraps to itself, and
         \* then shl and shr call each other without end: the process aborts.
         IF b.val = I64_MIN THEN Panic("shift by i64::MIN")
         ELSE LET l == IF b.val < 0 THEN ~left ELSE left
                  n == Abs(b.val)
              IN IF a.type = "U64" THEN Ok(U64(ShiftBy(a.val, n, l, WrapU)))
                 ELSE Ok(I64(ShiftBy(a.val, n, l, WrapI)))
    [] OTHER -> NotSupported(op, a, b)

Value_shl(a, b) == Shift(a, b, TRUE, "<<")
\* shr reports its unsupported operands with the text '<<'
Value_shr(a, b) == Shift(a, b, FALSE, "<<")

\* ---------------------------------------------------------------- chunk
\* Instruction: an opcode and its inline operand (0 when it has none;
\* Print(nl) holds 1 for true and 0 for false).

Instr(op, arg) == [op |-> op, arg |-> arg]
Halt == Instr("Halt", 0)

U16_MAX == 65535

Chunk_new ==
  [code |-> <<>>, constants |-> <<>>, names |-> <<>>, names_rev |-> [n \in {} |-> 0],
   lines |-> <<>>]

LineStart(offset, line) == [offset |-> offset, line |-> line]

Last(s) == s[Len(s)]

\* The assertion write() makes on the line of a new instruction.
write_assert_strict(chunk, line) == chunk.lines = <<>> \/ Last(chunk.lines).line < line

write_assert(chunk, line) == chunk.lines = <<>> \/ Last(chunk.lines).line <= line

write(chunk, i, line) ==
  [chunk EXCEPT !.code = Append(@, i),
                !.lines = IF chunk.lines # <<>> /\ Last(chunk.lines).line = line
                          THEN @ ELSE Append(@, LineStart(Len(chunk.code), line))]

\* add_constant returns Ok(index) with the chunk grown, or Err(message)
add_constant_ok(chunk) == Len(chunk.constants) <= U16_MAX
add_constant(chunk, value) == [chunk EXCEPT !.constants = Append(@, value)]

get_constant(chunk, addr) == chunk.constants[addr + 1]

\* names_rev.get(name): the index of `name`, or -1
names_rev(chunk, name) ==
  IF name \in DOMAIN chunk.names_rev THEN chunk.names_rev[name] ELSE -1

add_name_ok(chunk, name) == names_rev(chunk, name) >= 0 \/ Len(chunk.names) <= U16_MAX
add_name_index(chunk, name) ==
  IF names_rev(chunk, name) >= 0 THEN names_rev(chunk, name) ELSE Len(chunk.names)

add_name_again(chunk, name) ==
  [chunk EXCEPT !.names = Append(@, name),
                !.names_rev = [n \in DOMAIN @ \cup {name} |->
                                 IF n = name THEN Len(chunk.names) ELSE @[n]]]

add_name(chunk, name) ==
  IF names_rev(chunk, name) >= 0 THEN chunk
  ELSE [chunk EXCEPT !.names = Append(@, name),
                     !.names_rev = [n \in DOMAIN @ \cup {name} |->
                                      IF n = name THEN Len(chunk.names) ELSE @[n]]]

get_name(chunk, addr) == chunk.names[addr + 1]

\* The binary search of get_line over lines[left..right] (0-based, usize).
\* `right` is -1 where the code computes `mid - 1` with mid = 0, which
\* overflows usize: the loop cannot go on from there (see get_line).
RECURSIVE get_line_search(_, _, _, _, _)
get_line_search(chunk, instruction_idx, left, right, line) ==
  IF left > right THEN line
  ELSE LET mid == (left + right) \div 2
           mid_line == chunk.lines[mid + 1]
       IN IF instruction_idx >= mid_line.offset
          THEN IF mid = 0 THEN mid_line.line
               ELSE get_line_search(chunk, instruction_idx, mid + 1, right, mid_line.line)
          ELSE get_line_search(chunk, instruction_idx, left, mid - 1, line)

get_line(chunk, instruction_idx) ==
  get_line_search(chunk, instruction_idx, 0, Len(chunk.lines) - 1, Last(chunk.lines).line)

\* ------------------------------------------------------------- compiler
\* A compiler state c holds the fields of struct Compiler (the scanner with
\* its source, had_error, panic_mode, current, previous, labels,
\* pending_labels), the chunk it writes to, the diagnostics written to
\* standard error, and `aborted`: whether a Rust panic has ended the process.

\* Precedences that do not differ
PrecRank_flat(p) == 0

PrecRank(p) ==
  CASE p = "None" -> 0
    [] p = "Assignment" -> 1
    [] p = "Or" -> 2
    [] p = "And" -> 3
    [] p = "Equality" -> 4
    [] p = "Comparison" -> 5
    [] p = "Term" -> 6
    [] p = "Factor" -> 7
    [] p = "Unary" -> 8
    [] p = "Call" -> 9
    [] p = "Primary" -> 10

Rule(prefix, infix, precedence) ==
  [prefix |-> prefix, infix |-> infix, precedence |-> precedence]

\* Every kind the match does not give a function has (None, None,
\* Precedence::None); Colon and Ampersand, which the match does not list,
\* are taken with them.
get_rule(kind) ==
  CASE kind = "Minus" -> Rule("unary", "binary", "Term")
    [] kind = "Plus" -> Rule("None", "binary", "Term")
    [] kind = "Slash" -> Rule("None", "binary", "Factor")
    [] kind = "Star" -> Rule("None", "binary", "Factor")
    [] kind = "Bang" -> Rule("unary", "None", "None")
    [] kind = "BangEqual" -> Rule("None", "binary", "Equality")
    [] kind = "EqualEqual" -> Rule("None", "binary", "Equality")
    [] kind = "Greater" -> Rule("None", "binary", "Comparison")
    [] kind = "GreaterEqual" -> Rule("None", "binary", "Comparison")
    [] kind = "Less" -> Rule("None", "binary", "Comparison")
    [] kind = "LessEqual" -> Rule("None", "binary", "Comparison")
    [] kind = "Number" -> Rule("number", "None", "None")
    [] kind = "True" -> Rule("literal", "None", "None")
    [] kind = "False" -> Rule("literal", "None", "None")
    [] OTHER -> Rule("None", "None", "None")

\* error::error_at: the diagnostic written to standard error
Diagnostic(token, message) ==
  [stage |-> "compile", line |-> token.line,
   at |-> CASE token.kind = "Eof" -> " at end"
            [] token.kind = "Error" -> ""
            [] OTHER -> " at '" \o token.lexeme \o "'",
   message |-> message]

\* A report that leaves had_error as it is
error_at_unflagged(c, token, message) ==
  IF c.panic_mode THEN c
  ELSE [c EXCEPT !.stderr = Append(@, Diagnostic(token, message)),
                 !.panic_mode = TRUE]

error_at(c, token, message) ==
  IF c.panic_mode THEN c
  ELSE [c EXCEPT !.stderr = Append(@, Diagnostic(token, message)),
                 !.had_error = TRUE,
                 !.panic_mode = TRUE]

error_at_current(c, message) == error_at(c, c.current, message)

error(c, message) == error_at(c, c.previous, message)

\* A Rust panic in the compiler
abort(c) == [c EXCEPT !.aborted = TRUE]

\* The loop of advance(): scan until a token is not an Error token.
RECURSIVE advance_loop(_)

\* `r` is what next_token() returned on c's scanner
advance_scanned(c, r) ==
  IF r.tok.kind # "Error"
  THEN [c EXCEPT !.scanner = r.sc, !.current = r.tok]
  ELSE Then(error_at([c EXCEPT !.scanner = r.sc, !.current = r.tok],
                     r.tok, r.tok.lexeme),
            advance_loop)

advance_loop(c) ==
  Then(next_token(c.source, c.scanner), LAMBDA r : advance_scanned(c, r))

\* advance() without its call of next_token()
Compiler_advance_kept(c) == c

Compiler_advance(c) == advance_loop([c EXCEPT !.previous = c.current])

check(c, kind) == c.current.kind = kind

\* match_advance returns whether it advanced: check(c, kind) before it
Compiler_match_advance(c, kind) == IF check(c, kind) THEN Compiler_advance(c) ELSE c

consume(c, kind, message) ==
  IF check(c, kind) THEN Compiler_advance(c) ELSE error_at_current(c, message)

emit_instruction(c, instruction) ==
  IF write_assert(c.chunk, c.previous.line)
  THEN [c EXCEPT !.chunk = write(c.chunk, instruction, c.previous.line)]
  ELSE abort(c)

RECURSIVE emit_instructions(_, _)
emit_instructions(c, instructions) ==
  IF instructions = <<>> THEN c
  ELSE Then(emit_instruction(c, Head(instructions)),
            LAMBDA c1 : emit_instructions(c1, Tail(instructions)))

make_constant(c, value) ==
  IF add_constant_ok(c.chunk)
  THEN Then([c EXCEPT !.chunk = add_constant(c.chunk, value)],
            LAMBDA c1 : emit_instruction(c1, Instr("Constant", Len(c.chunk.constants))))
  ELSE error(c, "Could not add constant, reached limit of u16 max size")

literal(c) ==
  CASE c.previous.kind = "False" -> emit_instruction(c, Instr("False", 0))
    [] c.previous.kind = "True" -> emit_instruction(c, Instr("True", 0))
    [] OTHER -> abort(c)

\* parse_number!: `parsed` is what <ty>::from_str gave, -1 for Err
parse_number(c, parsed, type, ty) ==
  IF parsed >= 0 THEN make_constant(c, [type |-> type, val |-> parsed])
  ELSE error(c, "It was not possible to parse number to type " \o ty)

number_split_undotted(c, digits, suffix, float) ==
  CASE suffix = "u64" -> parse_number(c, ParseInt(digits, U64_MAX), "U64", "u64")
    [] suffix \in {"i64", ""} -> parse_number(c, ParseInt(digits, I64_MAX), "I64", "i64")
    [] suffix = "f64" -> parse_number(c, ParseFloat(digits), "F64", "f64")
    [] OTHER -> error(c, "Invalid suffix '" \o suffix \o "'")

\* number() once the lexeme is split in `digits` and `suffix`; `float` tells
\* whether a dot came before the first ASCII letter.
number_split(c, digits, suffix, float) ==
  CASE suffix = "u64" /\ float -> error(c, "Cannot set u64 suffix to a float number")
    [] suffix = "i64" /\ float -> error(c, "Cannot set i64 suffix to a float number")
    [] suffix = "u64" /\ ~float -> parse_number(c, ParseInt(digits, U64_MAX), "U64", "u64")
    [] suffix = "i64" /\ ~float -> parse_number(c, ParseInt(digits, I64_MAX), "I64", "i64")
    [] suffix = "f64" -> parse_number(c, ParseFloat(digits), "F64", "f64")
    [] suffix = "" /\ ~float -> parse_number(c, ParseInt(digits, I64_MAX), "I64", "i64")
    [] suffix = "" /\ float -> parse_number(c, ParseFloat(digits), "F64", "f64")
    [] OTHER -> error(c, "Invalid suffix '" \o suffix \o "'")

\* `number_end`: the position of the first ASCII letter of the lexeme
number_at(c, lx, number_end) ==
  number_split(c, SubSeq(lx, 1, number_end), SubSeq(lx, number_end + 1, Len(lx)),
               Contains(SubSeq(lx, 1, number_end), "."))

number(c) == number_at(c, c.previous.lexeme, FindFirst(c.previous.lexeme, 0, Letters))

BinaryCode(kind) ==
  CASE kind = "Plus" -> <<Instr("Add", 0)>>
    [] kind = "Minus" -> <<Instr("Subtract", 0)>>
    [] kind = "Slash" -> <<Instr("Divide", 0)>>
    [] kind = "Star" -> <<Instr("Multiply", 0)>>
    [] kind = "EqualEqual" -> <<Instr("Equal", 0)>>
    [] kind = "BangEqual" -> <<Instr("Equal", 0), Instr("Not", 0)>>
    [] kind = "Greater" -> <<Instr("Greater", 0)>>
    [] kind = "GreaterEqual" -> <<Instr("Less", 0), Instr("Not", 0)>>
    [] kind = "Less" -> <<Instr("Less", 0)>>
    [] kind = "LessEqual" -> <<Instr("Greater", 0), Instr("Not", 0)>>
    [] OTHER -> <<>>

RECURSIVE parse_precedence(_, _)

\* unary() after its operand: `kind` is the operator's token kind
unary_emit(c, kind) ==
  CASE c.aborted -> c
    [] ~c.aborted /\ kind = "Minus" -> emit_instruction(c, Instr("Negate", 0))
    [] ~c.aborted /\ kind = "Bang" -> emit_instruction(c, Instr("Not", 0))
    [] OTHER -> abort(c)

unary(c) ==
  Then(parse_precedence(c, "Primary"), LAMBDA c1 : unary_emit(c1, c.previous.kind))

\* binary() after its right operand
binary_emit(c, kind) ==
  CASE c.aborted -> c
    [] ~c.aborted /\ BinaryCode(kind) # <<>> -> emit_instructions(c, BinaryCode(kind))
    [] OTHER -> abort(c)

binary(c) ==
  Then(parse_precedence(c, "Primary"), LAMBDA c1 : binary_emit(c1, c.previous.kind))

prefix_rule(c, name) ==
  CASE name = "number" -> number(c)
    [] name = "literal" -> literal(c)
    [] name = "unary" -> unary(c)

\* parse_precedence() after `self.advance()` for the operator:
\* `.expect("Expect infix rule")`
infix_rule(c) ==
  IF get_rule(c.previous.kind).infix = "binary" THEN binary(c) ELSE abort(c)

RECURSIVE parse_infix_loop(_, _)
parse_infix_loop(c, precedence) ==
  IF ~c.aborted /\ PrecRank(precedence) <= PrecRank(get_rule(c.current.kind).precedence)
  THEN Then(Then(Compiler_advance(c), infix_rule),
            LAMBDA c1 : parse_infix_loop(c1, precedence))
  ELSE c

\* parse_precedence() after the prefix rule has run
parse_infix(c, precedence) ==
  IF ~c.aborted /\ PrecRank(precedence) <= PrecRank(get_rule(c.current.kind).precedence)
  THEN Then(Compiler_advance(c), infix_rule)
  ELSE c

\* parse_precedence() after its first `self.advance()`
parse_prefix(c, precedence) ==
  IF get_rule(c.previous.kind).prefix = "None" THEN error(c, "Missing expression")
  ELSE Then(prefix_rule(c, get_rule(c.previous.kind).prefix),
            LAMBDA c1 : parse_infix(c1, precedence))

parse_precedence(c, precedence) ==
  Then(Compiler_advance(c), LAMBDA c1 : parse_prefix(c1, precedence))

expression(c) == parse_precedence(c, "Assignment")

\* print_statement() after the expression; `nl`: the statement is println
print_emit(c, nl) ==
  IF c.aborted THEN c ELSE emit_instruction(c, Instr("Print", IF nl THEN 1 ELSE 0))

print_statement(c) ==
  Then(expression(c), LAMBDA c1 : print_emit(c1, c.previous.kind = "PrintLn"))

\* pending_labels.entry(label).or_insert_with(|| vec![]).push((code.len(), line))
push_pending(c, label) ==
  [c EXCEPT !.pending_labels =
     [l \in DOMAIN c.pending_labels \cup {label} |->
        CASE l = label /\ l \in DOMAIN c.pending_labels ->
               Append(c.pending_labels[l], <<Len(c.chunk.code), c.previous.line>>)
          [] l = label /\ l \notin DOMAIN c.pending_labels ->
               <<<<Len(c.chunk.code), c.previous.line>>>>
          [] OTHER -> c.pending_labels[l]]]

\* The end of if_statement() and goto_statement(): the use of the label
\* named by the previous token is recorded, then the jump emitted.
jump_emit(c, op) ==
  Then(push_pending(c, c.previous.lexeme), LAMBDA c1 : emit_instruction(c1, Instr(op, 0)))

if_emit_plain(c, negate) == jump_emit(c, "JumpIf")

\* if_statement() after the two consume() calls
if_emit(c, negate) ==
  \* `label` is read before Not is emitted; emitting does not change `previous`
  Then(IF negate THEN emit_instruction(c, Instr("Not", 0)) ELSE c,
       LAMBDA c1 : jump_emit(c1, "JumpIf"))

\* if_statement() after the first consume(); `stmt` is "if" or "ifFalse"
if_label(c, stmt) ==
  Then(consume(c, "Identifier", "Missing label after " \o stmt \o " statement"),
       LAMBDA c1 : if_emit(c1, stmt = "ifFalse"))

\* if_statement() after the expression
if_consume(c, stmt) ==
  IF c.aborted THEN c
  ELSE Then(consume(c, "Goto", "Missing 'goto' keyword after " \o stmt \o " statement"),
            LAMBDA c1 : if_label(c1, stmt))

if_statement(c) ==
  Then(expression(c),
       LAMBDA c1 : if_consume(c1, IF c.previous.kind = "If" THEN "if" ELSE "ifFalse"))

goto_statement(c) ==
  Then(consume(c, "Identifier", "Missing label for 'goto' statement"),
       LAMBDA c1 : jump_emit(c1, "Goto"))

\* statement(): the match on the token just consumed
statement_dispatch(c) ==
  CASE c.previous.kind \in {"Print", "PrintLn"} -> print_statement(c)
    [] c.previous.kind \in {"If", "IfFalse"} -> if_statement(c)
    [] c.previous.kind = "Goto" -> goto_statement(c)
    [] c.previous.kind = "Halt" -> emit_instruction(c, Halt)
    [] c.previous.kind = "Equal" ->
         error(c, "Assignments must have a variable on the left side")
    [] c.previous.kind = "Scan" ->
         error(c, "Return value of scan must be assigned to a variable")
    [] OTHER -> error(c, "Invalid statement")

\* statement(): the match on the token that follows the statement
statement_end(c) ==
  IF c.aborted \/ c.current.kind \in {"NewLine", "Eof"} THEN c
  ELSE error_at_current(c, "There must be at most one statement per line")

\* statement() after its `self.advance()`
statement_advanced(c) ==
  IF c.previous.kind = "NewLine" THEN c ELSE Then(statement_dispatch(c), statement_end)

statement(c) == Then(Compiler_advance(c), statement_advanced)

RECURSIVE synchronize_loop(_)
synchronize_loop(c) ==
  IF c.current.kind = "Eof" \/ c.previous.kind = "NewLine" THEN c
  ELSE Then(Compiler_advance(c), synchronize_loop)

synchronize(c) == synchronize_loop([c EXCEPT !.panic_mode = FALSE])

IsJump(i) == i.op \in {"Goto", "JumpIf"}

\* The instruction indexes recorded for label l
Uses(c, l) == {c.pending_labels[l][n][1] : n \in 1..Len(c.pending_labels[l])}

\* The pending labels that `labels` declares
Declared(c) == {l \in DOMAIN c.pending_labels : l \in DOMAIN c.labels}

\* patch_jump(idx, val) panics unless code[idx] is a Goto or a JumpIf
patch_jump_ok(c, idx) == idx < Len(c.chunk.code) /\ IsJump(c.chunk.code[idx + 1])

\* The instruction at index idx after every patch_jump of update_pending_labels
patch_jump(c, idx) ==
  IF \E l \in Declared(c) : idx \in Uses(c, l)
  THEN Instr(c.chunk.code[idx + 1].op,
             c.labels[CHOOSE l \in Declared(c) : idx \in Uses(c, l)] % (U16_MAX + 1))
  ELSE c.chunk.code[idx + 1]

update_pending_labels(c) ==
  IF \A l \in Declared(c) : \A idx \in Uses(c, l) : patch_jump_ok(c, idx)
  THEN [c EXCEPT !.chunk.code = [i \in 1..Len(c.chunk.code) |-> patch_jump(c, i - 1)]]
  ELSE abort(c)

end_patch(c) == IF c.aborted THEN c ELSE update_pending_labels(c)

\* An end() that never emits Halt
end_without_halt(c) == end_patch(c)

end(c) ==
  Then(IF c.chunk.code = <<>> \/ Last(c.chunk.code) # Halt
       THEN emit_instruction(c, Halt) ELSE c,
       end_patch)

NoLabels == [l \in {} |-> 0]
NoPending == [l \in {} |-> <<>>]

Compiler_new(src, chunk) ==
  [source |-> src, scanner |-> Scanner_new,
   had_error |-> FALSE, panic_mode |-> FALSE,
   current |-> synthetic(""), previous |-> synthetic(""),
   labels |-> NoLabels, pending_labels |-> NoPending,
   chunk |-> chunk, stderr |-> <<>>, aborted |-> FALSE]

\* ------------------------------------------------------ virtual machine
\* A machine state m holds the fields of struct VirtualMachine (chunk,
\* frames, ip), what has been written to standard output and standard
\* error, and `status`: "running" inside the loop of run(), else what run()
\* returned ("Ok", "RuntimeError") or "Panic" when the process aborted.

EmptySt == [n \in {} |-> 0]
None == <<>>
Some(x) == <<x>>

\* Frame::default()
Frame_default == [stack |-> <<>>, st |-> EmptySt, ra |-> None]

get_current_frame(m) == Last(m.frames)
get_current_stack(m) == get_current_frame(m).stack
get_current_st(m) == get_current_frame(m).st

set_stack(m, stack) == [m EXCEPT !.frames[Len(m.frames)].stack = stack]
push(m, value) == set_stack(m, Append(get_current_stack(m), value))
\* Vec::pop on a non-empty stack
Front(s) == SubSeq(s, 1, Len(s) - 1)
pop_stack(m) == set_stack(m, Front(get_current_stack(m)))

\* A report after which run() goes on
report_rte_continue(m, message) ==
  [m EXCEPT !.stderr = Append(@, [stage |-> "runtime",
                                   line |-> 0,
                                   at |-> "",
                                   message |-> message])]

report_rte(m, message) ==
  [m EXCEPT !.stderr = Append(@, [stage |-> "runtime",
                                   line |-> get_line(m.chunk, m.ip),
                                   at |-> IF m.ip >= Len(m.chunk.code)
                                          THEN "beyond the code" ELSE "",
                                   message |-> message]),
            !.status = "RuntimeError"]

\* What follows an operator's outcome r on machine state m
apply_result(m, r) ==
  CASE r.kind = "Ok" -> push(m, r.val)
    [] r.kind = "Err" -> report_rte(m, r.msg)
    [] r.kind = "Panic" -> [m EXCEPT !.status = "Panic"]

NotEnough(oper) ==
  "Can not apply operator '" \o oper \o "' because there are not enough values in the stack"

\* `a $oper b` and `Value::$oper(a, b)`: `oper` is the text stringify! gives
operate(oper, a, b) ==
  CASE oper = "+" -> Value_add(a, b)
    [] oper = "-" -> Value_sub(a, b)
    [] oper = "*" -> Value_mul(a, b)
    [] oper = "/" -> Value_div(a, b)
    [] oper = "%" -> Value_rem(a, b)
    [] oper = "<<" -> Value_shl(a, b)
    [] oper = ">>" -> Value_shr(a, b)
    [] oper = "eq" -> Value_eq(a, b)
    [] oper = "gt" -> Value_gt(a, b)
    [] oper = "lt" -> Value_lt(a, b)

\* `m` is the machine after b was popped
binary_op_a(m, b, oper) ==
  IF get_current_stack(m) = <<>> THEN report_rte(m, NotEnough(oper))
  ELSE Then(pop_stack(m),
            LAMBDA m1 : apply_result(m1, operate(oper, Last(get_current_stack(m)), b)))

\* binary_op! and binary_op_f!
binary_op(m, oper) ==
  IF get_current_stack(m) = <<>> THEN report_rte(m, NotEnough(oper))
  ELSE Then(pop_stack(m),
            LAMBDA m1 : binary_op_a(m1, Last(get_current_stack(m)), oper))

\* r#return: the frame is popped; run() returns when it had no return address
\* A return that leaves ip where it is
VM_return_on(m) ==
  IF get_current_frame(m).ra # None
  THEN [m EXCEPT !.frames = Front(m.frames)]
  ELSE [m EXCEPT !.frames = Front(m.frames), !.status = "Ok"]

VM_return(m) ==
  IF get_current_frame(m).ra # None
  THEN [m EXCEPT !.frames = Front(m.frames), !.ip = get_current_frame(m).ra[1]]
  ELSE [m EXCEPT !.frames = Front(m.frames), !.status = "Ok"]

\* The parameters call() pops: the `count` topmost values, topmost first
\* The parameters in the order of their push
Reverse_kept(s) == s

RECURSIVE Reverse(_)
Reverse(s) == IF s = <<>> THEN <<>> ELSE Append(Reverse(Tail(s)), Head(s))

\* A call that only jumps
VM_call_goto(m, ip) ==
  IF get_current_stack(m) = <<>>
  THEN report_rte(m, "No value in the stack to define how many parameters to call function")
  ELSE [m EXCEPT !.ip = ip]

VM_call(m, ip) ==
  IF get_current_stack(m) = <<>>
  THEN report_rte(m, "No value in the stack to define how many parameters to call function")
  ELSE LET param_count == Last(get_current_stack(m))
           m1 == pop_stack(m)
           stack == get_current_stack(m1)
       IN IF param_count.type # "U64"
          THEN report_rte(m1, "Parameter count must be defined by a variable of type u64 but found type "
                               \o type_info(param_count))
          ELSE LET count == param_count.val IN
               IF count > Len(stack)
               THEN report_rte(set_stack(m1, <<>>),
                               "Method called with " \o Dec(count) \o " parameters but "
                               \o Dec(Len(stack)) \o " were found in the stack")
               ELSE LET parameters == Reverse(SubSeq(stack, Len(stack) - count + 1, Len(stack)))
                        m2 == set_stack(m1, SubSeq(stack, 1, Len(stack) - count))
                    IN IF ~add_name_ok(m2.chunk, "args") \/ ~add_name_ok(add_name(m2.chunk, "args"), "argc")
                       THEN report_rte(m2, "The program uses too many variables (65535+)")
                       ELSE LET ch1 == add_name(m2.chunk, "args")
                                args_chunk_addr == add_name_index(m2.chunk, "args")
                                argc_chunk_addr == add_name_index(ch1, "argc")
                                st0 == (argc_chunk_addr :> 0)
                                st1 == IF parameters # <<>>
                                       THEN (args_chunk_addr :> 1) @@ st0 ELSE st0
                                frame == [stack |-> <<U64(Len(parameters))>> \o parameters,
                                          st |-> st1, ra |-> Some(m2.ip)]
                            IN [m2 EXCEPT !.chunk = add_name(ch1, "argc"),
                                          !.frames = Append(@, frame),
                                          !.ip = ip]

\* `m` is the machine after value and addr were popped
assign_to(m, addr, value) ==
  CASE addr.type # "Addr" -> report_rte(m, "Assignment target in stack is not valid")
    [] addr.type = "Addr" /\ addr.val >= Len(get_current_stack(m)) ->
         report_rte(m, "Assignment target points to invalid stack address")
    [] OTHER -> set_stack(m, [get_current_stack(m) EXCEPT ![addr.val + 1] = value])

\* `m` is the machine after value was popped
assign_addr(m, value) ==
  IF get_current_stack(m) = <<>> THEN report_rte(m, "No address in the stack to assign to")
  ELSE assign_to(pop_stack(m), Last(get_current_stack(m)), value)

VM_assign(m) ==
  IF get_current_stack(m) = <<>> THEN report_rte(m, "No value in the stack to assign")
  ELSE assign_addr(pop_stack(m), Last(get_current_stack(m)))

\* print!("{}{}", value, suffix) on the kept part of standard output
Written(out, text) ==
  IF Len(out \o text) > MaxOut THEN SubSeq(out \o text, 1, MaxOut) ELSE out \o text

VM_print_kept(m, nl) ==
  IF get_current_stack(m) = <<>> THEN report_rte(m, "No value in the stack to print")
  ELSE [m EXCEPT
          !.stdout = Written(@, Display(Last(get_current_stack(m)))
                                \o (IF nl THEN "\n" ELSE ""))]

VM_print(m, nl) ==
  IF get_current_stack(m) = <<>> THEN report_rte(m, "No value in the stack to print")
  ELSE [pop_stack(m) EXCEPT
          !.stdout = Written(@, Display(Last(get_current_stack(m)))
                                \o (IF nl THEN "\n" ELSE ""))]

VM_pop(m) ==
  IF get_current_stack(m) = <<>> THEN report_rte(m, "No value in the stack to pop")
  ELSE pop_stack(m)

\* `m` is the machine after value was popped
jump_on(m, value, ip) ==
  CASE value.type = "Bool" /\ value.val -> [m EXCEPT !.ip = ip]
    [] value.type = "Bool" /\ ~value.val -> m
    [] OTHER -> report_rte(m, "Invalid type '" \o type_info(value)
                               \o "' for condition, 'bool' required.")

\* A JumpIf that reads the condition and leaves it on the stack
jump_if_kept(m, ip) ==
  IF get_current_stack(m) = <<>> THEN report_rte(m, "No value in the stack to check condition")
  ELSE jump_on(m, Last(get_current_stack(m)), ip)

jump_if(m, ip) ==
  IF get_current_stack(m) = <<>> THEN report_rte(m, "No value in the stack to check condition")
  ELSE jump_on(pop_stack(m), Last(get_current_stack(m)), ip)

\* negate() and not(): the operator acts on the top of the stack in place
unary_op(m, r) ==
  CASE r.kind = "Ok" -> set_stack(m, Append(Front(get_current_stack(m)), r.val))
    [] r.kind = "Err" -> report_rte(m, r.msg)
    [] r.kind = "Panic" -> [m EXCEPT !.status = "Panic"]

NoValueForUnary ==
  "Can not apply unary operator '-' because there is not a value in the stack"

VM_negate(m, overflow_checks) ==
  IF get_current_stack(m) = <<>> THEN report_rte(m, NoValueForUnary)
  ELSE unary_op(m, arithmetic_negate(Last(get_current_stack(m)), overflow_checks))

VM_not(m) ==
  IF get_current_stack(m) = <<>> THEN report_rte(m, NoValueForUnary)
  ELSE unary_op(m, logic_negate(Last(get_current_stack(m))))

\* get_constant's expect() panics on an index outside the pool
constant(m, addr) ==
  IF addr < Len(m.chunk.constants) THEN push(m, get_constant(m.chunk, addr))
  ELSE [m EXCEPT !.status = "Panic"]

\* get_name's expect() panics on an index outside the pool
undefined_name(m, name_addr, text) ==
  IF name_addr < Len(m.chunk.names)
  THEN report_rte(m, "Variable " \o get_name(m.chunk, name_addr) \o text)
  ELSE [m EXCEPT !.status = "Panic"]

get_var(m, name_addr) ==
  IF name_addr \notin DOMAIN get_current_st(m)
  THEN undefined_name(m, name_addr, " is undefined")
  ELSE IF get_current_st(m)[name_addr] < Len(get_current_stack(m))
       THEN push(m, get_current_stack(m)[get_current_st(m)[name_addr] + 1])
       ELSE undefined_name(m, name_addr, " has invalid address on symbol table")

\* Entry::Vacant: `cur_sp` is the length of the stack before the push
create_var(m, name_addr, cur_sp) ==
  push(push([m EXCEPT !.frames[Len(m.frames)].st = (name_addr :> cur_sp) @@ @], U64(0)),
       Addr(cur_sp))

\* A slot for every use of the name
get_or_create_var_anew(m, name_addr) == create_var(m, name_addr, Len(get_current_stack(m)))

get_or_create_var(m, name_addr) ==
  IF name_addr \in DOMAIN get_current_st(m)
  THEN push(m, Addr(get_current_st(m)[name_addr]))
  ELSE create_var(m, name_addr, Len(get_current_stack(m)))

\* The match of run() on the fetched instruction
execute(m, i, overflow_checks) ==
  CASE i.op = "Halt" -> [m EXCEPT !.status = "Ok"]
    [] i.op = "Return" -> VM_return(m)
    [] i.op = "Negate" -> VM_negate(m, overflow_checks)
    [] i.op = "Not" -> VM_not(m)
    [] i.op = "Constant" -> constant(m, i.arg)
    [] i.op = "GetVar" -> get_var(m, i.arg)
    [] i.op = "GetOrCreateVar" -> get_or_create_var(m, i.arg)
    [] i.op = "True" -> push(m, Bool(TRUE))
    [] i.op = "False" -> push(m, Bool(FALSE))
    [] i.op = "Add" -> binary_op(m, "+")
    [] i.op = "Subtract" -> binary_op(m, "-")
    [] i.op = "Multiply" -> binary_op(m, "*")
    [] i.op = "Divide" -> binary_op(m, "/")
    [] i.op = "Modulo" -> binary_op(m, "%")
    [] i.op = "ShiftLeft" -> binary_op(m, "<<")
    [] i.op = "ShiftRight" -> binary_op(m, ">>")
    [] i.op = "Equal" -> binary_op(m, "eq")
    [] i.op = "Greater" -> binary_op(m, "gt")
    [] i.op = "Less" -> binary_op(m, "lt")
    [] i.op = "Print" -> VM_print(m, i.arg = 1)
    [] i.op = "Pop" -> VM_pop(m)
    [] i.op = "Goto" -> [m EXCEPT !.ip = i.arg]
    [] i.op = "JumpIf" -> jump_if(m, i.arg)
    [] i.op = "Assign" -> VM_assign(m)
    [] i.op = "Call" -> VM_call(m, i.arg)

\* One turn of the loop of run(): fetch, `ip += 1`, execute
run_step(m, overflow_checks) ==
  IF m.ip >= Len(m.chunk.code)
  THEN report_rte(m, "Instruction pointer reached end of code without a finishing statement")
  ELSE Then([m EXCEPT !.ip = m.ip + 1],
            LAMBDA m1 : execute(m1, m.chunk.code[m.ip + 1], overflow_checks))

\* -------------------------------------------------------------- sources
\* The source texts interpret() is called with.

\* `print a op b` on two I64 literals, each with or without the i64 suffix
ArithLits == (0..MaxLit) \cup {I64_MAX - 1, I64_MAX}
ArithOps == {"+", "-", "*"}
LitSuffixes == {"", "i64"}
PrintSrc(a, sa, op, b, sb) ==
  "print " \o Dec(a) \o sa \o " " \o op \o " " \o Dec(b) \o sb
ArithCases == ArithLits \X LitSuffixes \X ArithOps \X ArithLits \X LitSuffixes
ArithSources == {PrintSrc(k[1], k[2], k[3], k[4], k[5]) : k \in ArithCases}

AssignLits == (0..MaxLit) \cup {10}
AssignSrc(a, b) == "x = " \o Dec(a) \o "\ny = x * " \o Dec(b) \o "\nprintln y"
AssignSources == {AssignSrc(a, b) : a \in AssignLits, b \in AssignLits}

\* The end-to-end scenarios of the specification, and three-line programs
\* with a runtime error between two prints.
ScenarioSources ==
  {"print 1 + 2",
   "x = 10\ny = x * 2\nprintln y",
   "x = 5\nif x < 10 goto L1\nprintln 99\nL1:\nprintln x",
   "i = 0\nloop:\nif i >= 3 goto done\nprintln i\ni = i + 1\ngoto loop\ndone:\nhalt",
   "println 3.14f64",
   "println 'a'",
   "println 10u64 / 0u64",
   "println 1 + true",
   "print 1\nprint 1 + true\nprint 2",
   "println 7\nprint 8 / 0\nprintln 9",
   "print 2\nif 1 goto L\nprint 3",
   "+ 1 @\n+\n+"}

Lines ==
  {"", "print 1", "println 2", "print 1 + true", "print 8 / 0", "print -1",
   "print !true", "print 1 <= 2", "print 1 + 2 + 3", "print 'a'", "halt",
   "goto L", "if true goto L", "ifFalse true goto L", "if false goto L", "L:",
   "x = 1", "# c", "print 1 # c", "@", "+", "+ 1 @"}

RECURSIVE ProgramsOf(_)
ProgramsOf(n) ==
  IF n = 0 THEN {""}
  ELSE IF n = 1 THEN Lines
  ELSE {p \o "\n" \o l : p \in ProgramsOf(n - 1), l \in Lines}

Sources ==
  UNION {ProgramsOf(n) : n \in 0..MaxLines}
    \cup ArithSources \cup AssignSources \cup ScenarioSources

\* -------------------------------------------------------- state machine

VARIABLES
  source,          \* the text given to interpret()
  pc,              \* "new", "compile" (head of the loop of compile()), "run", "done"
  result,          \* what interpret() returned, "None" before it returns
  scanner, had_error, panic_mode, current, previous, labels, pending_labels,
                   \* struct Compiler
  chunk, frames, ip,
                   \* struct VirtualMachine
  stdout, stderr,  \* the standard streams, as written by the current call
  overflow_checks, \* whether the build panics on integer overflow
  earlier,         \* the calls of interpret() that returned on this machine:
                   \* their source, result and streams, oldest first
  added            \* the calls of Chunk's functions (add_name, add_constant,
                   \* write, get_line) made on the chunk directly: what was
                   \* given and what was returned, oldest first

cvars == <<scanner, had_error, panic_mode, current, previous, labels, pending_labels>>
vars == <<source, overflow_checks, pc, result, cvars, chunk, frames, ip, stdout, stderr,
          earlier, added>>

\* The compiler state held by the variables, and its return to them
TheCompiler ==
  [source |-> source, scanner |-> scanner,
   had_error |-> had_error, panic_mode |-> panic_mode,
   current |-> current, previous |-> previous,
   labels |-> labels, pending_labels |-> pending_labels,
   chunk |-> chunk, stderr |-> stderr, aborted |-> FALSE]

SetCompiler(c) ==
  /\ scanner' = c.scanner
  /\ had_error' = c.had_error
  /\ panic_mode' = c.panic_mode
  /\ current' = c.current
  /\ previous' = c.previous
  /\ labels' = c.labels
  /\ pending_labels' = c.pending_labels
  /\ chunk' = c.chunk
  /\ stderr' = c.stderr

TheMachine ==
  [chunk |-> chunk, frames |-> frames, ip |-> ip,
   stdout |-> stdout, stderr |-> stderr, status |-> "running"]

\* interpret(): `self.frames.clear(); self.frames.push(Frame::default())`
reset_frames_kept(fs) == Append(fs, Frame_default)

reset_frames(fs) == Append(SubSeq(fs, 1, 0), Frame_default)

\* VirtualMachine::new(), with a compiler not yet constructed, before a call
\* of interpret() on one of `texts`
New(texts) ==
  /\ source \in texts
  /\ overflow_checks \in BOOLEAN
  /\ pc = "new"
  /\ result = "None"
  /\ scanner = Scanner_new
  /\ had_error = FALSE
  /\ panic_mode = FALSE
  /\ current = synthetic("")
  /\ previous = synthetic("")
  /\ labels = NoLabels
  /\ pending_labels = NoPending
  /\ chunk = Chunk_new
  /\ frames = <<>>
  /\ ip = 0
  /\ stdout = ""
  /\ stderr = <<>>
  /\ earlier = <<>>
  /\ added = <<>>

Init == New(Sources)

\* interpret() up to the loop of compile(): the machine is reset, the
\* compiler constructed, and the first token scanned.
Interpret ==
  /\ pc = "new"
  /\ frames' = reset_frames(frames)
  /\ ip' = 0
  /\ \E c \in {Compiler_advance(Compiler_new(source, Chunk_new))} : SetCompiler(c)
  /\ pc' = "compile"
  /\ UNCHANGED <<source, overflow_checks, result, stdout, earlier, added>>

\* One turn of the loop of compile(): a statement, then synchronize() when
\* the statement left panic_mode set.
compile_sync(c) == IF ~c.aborted /\ c.panic_mode THEN synchronize(c) ELSE c

compile_turn(c) == Then(statement(c), compile_sync)

\* The compiler has become c
CompileTo(c) ==
  /\ SetCompiler(c)
  /\ pc' = IF c.aborted THEN "done" ELSE "compile"
  /\ result' = IF c.aborted THEN "Panic" ELSE result

CompileStatement ==
  /\ pc = "compile"
  /\ ~check(TheCompiler, "Eof")
  /\ \E c \in {compile_turn(TheCompiler)} : CompileTo(c)
  /\ UNCHANGED <<source, overflow_checks, frames, ip, stdout, earlier, added>>

\* The loop of compile() ends at Eof: end(), and interpret() returns
\* CompileError or goes on to run().
compile_end(c) == Then(Compiler_match_advance(c, "Eof"), end)

\* Compiler::compile as a whole, from the construction of the compiler to the
\* return of end()
RECURSIVE compile_loop(_)
compile_loop(c) ==
  CASE c.aborted -> c
    [] ~c.aborted /\ check(c, "Eof") -> compile_end(c)
    [] OTHER -> Then(compile_turn(c), LAMBDA c1 : compile_loop(c1))

compile(src) == compile_loop(Compiler_advance(Compiler_new(src, Chunk_new)))

\* compile() has returned with the compiler being c
CompiledTo(c) ==
  /\ SetCompiler(c)
  /\ pc' = IF c.aborted \/ c.had_error THEN "done" ELSE "run"
  /\ result' = CASE c.aborted -> "Panic"
                 [] ~c.aborted /\ c.had_error -> "CompileError"
                 [] OTHER -> result

CompileEnd ==
  /\ pc = "compile"
  /\ check(TheCompiler, "Eof")
  /\ \E c \in {compile_end(TheCompiler)} : CompiledTo(c)
  /\ UNCHANGED <<source, overflow_checks, frames, ip, stdout, earlier, added>>

\* One turn of the loop of run()
\* The machine has become m
StepTo(m) ==
  /\ chunk' = m.chunk
  /\ frames' = m.frames
  /\ ip' = m.ip
  /\ stdout' = m.stdout
  /\ stderr' = m.stderr
  /\ pc' = IF m.status = "running" THEN "run" ELSE "done"
  /\ result' = IF m.status = "running" THEN result ELSE m.status

\* One turn of the loop of run()
Step ==
  /\ pc = "run"
  /\ \E m \in {run_step(TheMachine, overflow_checks)} : StepTo(m)
  /\ UNCHANGED <<source, overflow_checks, cvars, earlier, added>>

Next == Interpret \/ CompileStatement \/ CompileEnd \/ Step

Spec == Init /\ [][Next]_vars

\* The REPL keeps one VirtualMachine and calls interpret() on it once per
\* line read; the library allows the same of any caller. MaxCalls bounds the
\* calls made on one machine, ReuseSources the texts given to them.
MaxCalls == 3

ReuseSources ==
  {"print 1 + 2",
   "print 1 + - true",
   "println 'a'",
   "println 1 + true",
   "print 1\nprint 1 + true\nprint 2",
   "println 7\nprint 8 / 0\nprintln 9",
   "print 2\nif 1 goto L\nprint 3",
   "x = 1"}

Returned == [source |-> source, result |-> result, stdout |-> stdout, stderr |-> stderr]

\* A further call of interpret() on a machine whose last call returned (a
\* panic unwinds through the caller, which makes no further call). The
\* streams restart so that they hold what this call writes.
Reinterpret ==
  /\ pc = "done"
  /\ result # "Panic"
  /\ Len(earlier) + 1 < MaxCalls
  /\ earlier' = Append(earlier, Returned)
  /\ \E src \in ReuseSources :
       /\ source' = src
       /\ \E c \in {Compiler_advance(Compiler_new(src, Chunk_new))} : SetCompiler(c)
  /\ frames' = reset_frames(frames)
  /\ ip' = 0
  /\ stdout' = ""
  /\ result' = "None"
  /\ pc' = "compile"
  /\ UNCHANGED <<overflow_checks, added>>

ReuseInit == New(ReuseSources)

NextReuse == Next \/ Reinterpret

ReuseSpec == ReuseInit /\ [][NextReuse]_vars

\* Number lexemes as Scanner::number cuts them: digits, an optional dot with
\* further digits, and a run of letters and digits. Each digit text comes
\* with the number it denotes, to the hundredth.
NumberTexts ==
  {[text |-> "0", whole |-> 0, hundredths |-> 0, dot |-> FALSE],
   [text |-> "7", whole |-> 7, hundredths |-> 0, dot |-> FALSE],
   [text |-> "007", whole |-> 7, hundredths |-> 0, dot |-> FALSE],
   [text |-> "200", whole |-> 200, hundredths |-> 0, dot |-> FALSE],
   [text |-> "300", whole |-> 300, hundredths |-> 0, dot |-> FALSE],
   [text |-> "900", whole |-> 900, hundredths |-> 0, dot |-> FALSE],
   [text |-> "1.", whole |-> 1, hundredths |-> 0, dot |-> TRUE],
   [text |-> "1.5", whole |-> 1, hundredths |-> 50, dot |-> TRUE],
   [text |-> "2.25", whole |-> 2, hundredths |-> 25, dot |-> TRUE],
   [text |-> "300.0", whole |-> 300, hundredths |-> 0, dot |-> TRUE]}

NumberSuffixes == {"", "u64", "i64", "f64", "u32", "f", "U64", "i64x", "e5"}

LiteralSources == {"println " \o n.text \o suffix : n \in NumberTexts, suffix \in NumberSuffixes}

LiteralSpec == New(LiteralSources) /\ [][Next]_vars

\* The operator lexemes of the scanner that the instruction set has binary
\* instructions for, between two number literals
OperatorLexemes == {"+", "-", "*", "/", "%", "<<", ">>", "==", "!=", "<", "<=", ">", ">="}

OperatorSources ==
  {"println " \o a \o " " \o op \o " " \o b : a \in {"7", "2"}, b \in {"7", "2"}, op \in OperatorLexemes}

OperatorSpec == New(OperatorSources) /\ [][Next]_vars

\* Character literals: one character other than the quote between quotes
LiteralChars == {"a", "b", "z", "A", "Z", "0", "9", "_", "+", "-", "*", "=", " ", "\"", "@", "."}

\* `println` of each character literal, and of a number literal and a boolean
\* for comparison
CharSources == {"println '" \o c \o "'" : c \in LiteralChars} \cup {"println 7", "println true"}

CharSpec == New(CharSources) /\ [][Next]_vars

\* Programs with a conditional jump on a boolean literal, written with
\* `ifFalse X` and with `if !X`, alone and among other statements
IfBefore == {"", "print 1\n", "print 1 + true\n"}

IfAfter == {"", "\nprint 2", "\nhalt\nprint 3"}

IfLabels == {"L", "end"}

IfProgram(before, cond, X, L, after) == before \o cond \o X \o " goto " \o L \o after

IfSources ==
  {IfProgram(before, cond, X, L, after) :
     before \in IfBefore, cond \in {"ifFalse ", "if !"}, X \in {"true", "false"},
     L \in IfLabels, after \in IfAfter}

IfSpec == New(IfSources) /\ [][Next]_vars

\* Programs of up to MaxLong lines, each a statement of two or of four
\* instructions, an empty line, or a line that does not compile
MaxLong == 6

LongLines == {"print 1", "print 1 + 2", "", "@"}

RECURSIVE LongPrograms(_)
LongPrograms(n) ==
  IF n = 1 THEN LongLines
  ELSE LongPrograms(n - 1) \cup
       {p \o "\n" \o l : p \in LongPrograms(n - 1), l \in LongLines \ {"print 1 + 2"}}

LongSources == LongPrograms(MaxLong)

LongSpec == New(LongSources) /\ [][Next]_vars

\* Chunk::add_name called on the chunk of a machine just constructed, up to
\* MaxAdds times, with names of Names (`args` and `argc` are the names call()
\* adds)
MaxAdds == 4

Names == {"args", "argc", "x", "y"}

AddName ==
  /\ pc = "new"
  /\ Len(added) < MaxAdds
  /\ \E name \in Names :
       /\ add_name_ok(chunk, name)
       /\ chunk' = add_name(chunk, name)
       /\ added' = Append(added, [name |-> name, index |-> add_name_index(chunk, name)])
  /\ UNCHANGED <<source, overflow_checks, pc, result, cvars, frames, ip, stdout, stderr,
                 earlier>>

NameSpec == New({""}) /\ [][AddName]_vars

\* Scanner::new(source) followed by calls of next_token(), which go on after
\* Eof was returned: `current` is the token the last call returned and
\* `previous` the one before it.
ScanSources ==
  ScenarioSources \cup
  {"", "\n", "a\n\nb", "1\n2\n3\n", " \t1 \t\n  ", "x @ y", "# c\n1", "1.5.2 7u64",
   "<<=>>=!=!===<>", "(){}[];,.-+/*%:", "\"abc\" \"de", "\"a\nb\"\nc",
   "'a'", "'a' 'b'", "''", "'ab'", "'abc' 1", "'a", "'", "'\n'", "'a\n", "'ab\nc' 2",
   "x = 'a'\nprint x", "''a'", "','"}

NextToken ==
  /\ pc = "new"
  /\ \E r \in {next_token(source, scanner)} :
       /\ scanner' = r.sc
       /\ current' = r.tok
  /\ previous' = current
  /\ UNCHANGED <<source, overflow_checks, pc, result, had_error, panic_mode, labels,
                 pending_labels, chunk, frames, ip, stdout, stderr, earlier, added>>

ScanSpec == New(ScanSources) /\ [][NextToken]_vars

\* `print` of the expressions made of up to three operands of ExprOperands
\* with the unary operators and the binary operators of ExprBinary: a plain
\* operand, `u a`, `u v a`, `a op b`, `u a op b`, `a op u b`, `a op b op c`
ExprOperands == {"1", "true"}

ExprUnary == {"-", "!"}

ExprBinary == {"+", "*", "==", "<=", "<"}

Unary1(u, a) == "print " \o u \o " " \o a

Unary2(u, v, a) == "print " \o u \o " " \o v \o " " \o a

Binary1(a, op, b) == "print " \o a \o " " \o op \o " " \o b

UnaryBinary(u, a, op, b) == "print " \o u \o " " \o a \o " " \o op \o " " \o b

BinaryUnary(a, op, u, b) == "print " \o a \o " " \o op \o " " \o u \o " " \o b

Binary2(a, op, b, op2, c) ==
  "print " \o a \o " " \o op \o " " \o b \o " " \o op2 \o " " \o c

ExprSources ==
  {"print " \o a : a \in ExprOperands}
  \cup {Unary1(u, a) : u \in ExprUnary, a \in ExprOperands}
  \cup {Unary2(u, v, a) : u \in ExprUnary, v \in ExprUnary, a \in ExprOperands}
  \cup {Binary1(a, op, b) : a \in ExprOperands, op \in ExprBinary, b \in ExprOperands}
  \cup {UnaryBinary(u, a, op, b) :
          u \in ExprUnary, a \in ExprOperands, op \in ExprBinary, b \in ExprOperands}
  \cup {BinaryUnary(a, op, u, b) :
          a \in ExprOperands, op \in ExprBinary, u \in ExprUnary, b \in ExprOperands}
  \cup {Binary2(a, op, b, op2, c) :
          a \in ExprOperands, op \in ExprBinary, b \in ExprOperands, op2 \in ExprBinary,
          c \in ExprOperands}

ExprSpec == New(ExprSources) /\ [][Next]_vars

\* Programs of two or three lines: a first line out of RecoverFirst (all but
\* the last two record a compile error), a second line out of RecoverSecond
\* and, or not, a third line `print 1`
RecoverFirst ==
  {"print -", "print 1 +", "print 1 + 1 + 1", "print", "+ 1", "if 1 goto", "goto",
   "print 1 1", "= 1", "print 1", "println true"}

RecoverSecond == {"- 1", "+ 1", "print 1", "println true", "halt", ""}

RecoverSources ==
  {a \o "\n" \o b \o c : a \in RecoverFirst, b \in RecoverSecond, c \in {"", "\nprint 1"}}

RecoverSpec == New(RecoverSources) /\ [][Next]_vars

\* Chunk::add_constant called on a chunk directly, up to MaxAdds times, and
\* Compiler::compile called on that chunk, which is what interpret() does
\* with a chunk it has emptied. The chunk holds PoolSizes values at first,
\* as after that many calls of add_constant.
PoolSizes == {0, U16_MAX - 1, U16_MAX}

PoolSources == {"print 1", "print 1 + 2", "print 1\nprint true", "print"}

Pool(n) == [Chunk_new EXCEPT !.constants = [k \in 1..n |-> I64(0)]]

PoolInit ==
  /\ source \in PoolSources
  /\ overflow_checks \in BOOLEAN
  /\ pc = "new"
  /\ result = "None"
  /\ scanner = Scanner_new
  /\ had_error = FALSE
  /\ panic_mode = FALSE
  /\ current = synthetic("")
  /\ previous = synthetic("")
  /\ labels = NoLabels
  /\ pending_labels = NoPending
  /\ \E n \in PoolSizes : chunk = Pool(n)
  /\ frames = <<>>
  /\ ip = 0
  /\ stdout = ""
  /\ stderr = <<>>
  /\ earlier = <<>>
  /\ added = <<>>

\* add_constant(value): `added` gets the index returned, -1 for Err
AddConstant ==
  /\ pc = "new"
  /\ Len(added) < MaxAdds
  /\ chunk' = IF add_constant_ok(chunk) THEN add_constant(chunk, I64(7)) ELSE chunk
  /\ added' = Append(added, IF add_constant_ok(chunk) THEN Len(chunk.constants) ELSE -1)
  /\ UNCHANGED <<source, overflow_checks, pc, result, cvars, frames, ip, stdout, stderr,
                 earlier>>

\* Compiler::compile(source, chunk) up to the loop of compile()
CompileInto ==
  /\ pc = "new"
  /\ \E c \in {Compiler_advance(Compiler_new(source, chunk))} : SetCompiler(c)
  /\ pc' = "compile"
  /\ UNCHANGED <<source, overflow_checks, result, frames, ip, stdout, earlier, added>>

NextPool == AddConstant \/ CompileInto \/ CompileStatement \/ CompileEnd

PoolSpec == PoolInit /\ [][NextPool]_vars

\* Chunk::write called on a new chunk up to MaxWrites times, the first time
\* with line 1 and then with the line of the call before plus a step out
\* of LineSteps, and then Chunk::get_line called once with the index of an
\* instruction written. `added` holds the calls: the line given to write and
\* the index it returned, the index given to get_line and the line it
\* returned.
MaxWrites == 7

LineSteps == {0, 1, 2}

Call(op, arg, ret) == [op |-> op, arg |-> arg, ret |-> ret]

Writing == IF added = <<>> THEN TRUE ELSE Last(added).op = "write"

Write ==
  /\ pc = "new"
  /\ Writing
  /\ Len(added) < MaxWrites
  /\ \E line \in {IF added = <<>> THEN 1 ELSE Last(added).arg + d : d \in LineSteps} :
       /\ IF write_assert(chunk, line) THEN chunk' = write(chunk, Halt, line) ELSE FALSE
       /\ added' = Append(added, Call("write", line, Len(chunk.code)))
  /\ UNCHANGED <<source, overflow_checks, pc, result, cvars, frames, ip, stdout, stderr,
                 earlier>>

GetLine ==
  /\ pc = "new"
  /\ Writing
  /\ \E i \in 0..(Len(chunk.code) - 1) :
       added' = Append(added, Call("get_line", i, get_line(chunk, i)))
  /\ UNCHANGED <<source, overflow_checks, pc, result, cvars, chunk, frames, ip, stdout,
                 stderr, earlier>>

NextLine == Write \/ GetLine

LineSpec == New({""}) /\ [][NextLine]_vars

\* The sequences of at most n elements of S
UpTo(S, n) == UNION {[1..k -> S] : k \in 0..n}

\* The texts of at most MaxTokens lexemes of TokenLexemes, each followed by
\* a blank
MaxTokens == 4

TokenLexemes ==
  {"print", "if", "ifFalse", "goto", "L", "1", "true", "-", "!", "==", "\n"}

RECURSIVE Joined(_)
Joined(lexemes) ==
  IF lexemes = <<>> THEN "" ELSE Head(lexemes) \o " " \o Joined(Tail(lexemes))

TokenSources == {Joined(lexemes) : lexemes \in UpTo(TokenLexemes, MaxTokens)}

TokenSpec == New(TokenSources) /\ [][Next]_vars

\* compile() is a loop without suspension points, as run() is: interpret()
\* keeps executing until it returns. EndSources are the sequences of up
\* to MaxEnd lexemes of EndLexemes, among them characters and literals the
\* scanner answers with an Error token and tokens that start no statement.
MaxEnd == 4

EndLexemes == {"print", "halt", "1", "-", "@", "'a", "\n"}

EndSources == {Joined(lexemes) : lexemes \in UpTo(EndLexemes, MaxEnd)}

EndSpec == New(EndSources) /\ [][Next]_vars /\ WF_vars(Next)

\* run() executes whatever chunk the machine holds. Beside the chunks that
\* compile() produces, the instruction set has Modulo, ShiftLeft and ShiftRight,
\* which run() dispatches to Value's `%`, `<<` and `>>`: these are run from
\* chunks written through Chunk::write and Chunk::add_constant, holding two
\* operands, one binary instruction, a Print and a Halt.
Operands ==
  <<F64(0), F64(150), U64(0), U64(1), U64(10), I64(0), I64(1), I64(-1), I64(I64_MIN),
    Bool(TRUE), Bool(FALSE), Char("a"), Char("b")>>

BinaryInstructions ==
  {"Add", "Subtract", "Multiply", "Divide", "Modulo", "ShiftLeft", "ShiftRight",
   "Equal", "Greater", "Less"}

operand_chunk(a, b) ==
  write(write(add_constant(add_constant(Chunk_new, a), b), Instr("Constant", 0), 1),
        Instr("Constant", 1), 1)

binary_chunk(a, b, op) ==
  write(write(write(operand_chunk(a, b), Instr(op, 0), 1), Instr("Print", 1), 1), Halt, 1)

\* The machine at the call of run() on such a chunk; no text was compiled
ChunkInit ==
  /\ source = ""
  /\ overflow_checks \in BOOLEAN
  /\ pc = "run"
  /\ result = "None"
  /\ scanner = Scanner_new
  /\ had_error = FALSE
  /\ panic_mode = FALSE
  /\ current = synthetic("")
  /\ previous = synthetic("")
  /\ labels = NoLabels
  /\ pending_labels = NoPending
  /\ \E a \in DOMAIN Operands, b \in DOMAIN Operands, op \in BinaryInstructions :
       chunk = binary_chunk(Operands[a], Operands[b], op)
  /\ frames = <<Frame_default>>
  /\ ip = 0
  /\ stdout = ""
  /\ stderr = <<>>
  /\ earlier = <<>>
  /\ added = <<>>

\* The operations of the machine on the scenario programs and on the
\* written chunks
ChunkSpec == (New(ScenarioSources) \/ ChunkInit) /\ [][Next]_vars

\* run() on chunks that use variables and calls, instructions the compiler
\* does not emit: the chunks are written through Chunk::write,
\* Chunk::add_constant and Chunk::add_name, with the constants VmConstants
\* and the names VmNames (call() adds `args` and `argc` after them, at the
\* indices 2 and 3).
VmConstants == <<U64(0), U64(1), U64(2), U64(3), I64(2), Bool(TRUE), Char("a")>>

VmNames == <<"x", "y">>

RECURSIVE with_constants(_, _)
with_constants(ch, values) ==
  IF values = <<>> THEN ch
  ELSE with_constants(add_constant(ch, Head(values)), Tail(values))

RECURSIVE with_names(_, _)
with_names(ch, names) ==
  IF names = <<>> THEN ch ELSE with_names(add_name(ch, Head(names)), Tail(names))

RECURSIVE with_code(_, _)
with_code(ch, code) ==
  IF code = <<>> THEN ch ELSE with_code(write(ch, Head(code), 1), Tail(code))

VmChunk(code) == with_code(with_names(with_constants(Chunk_new, VmConstants), VmNames), code)

\* Straight-line codes of at most MaxCode instructions on variables, and
\* longer ones (StaleCodes) in which a slot is popped and its name used again
MaxCode == 4

VarInstructions ==
  {Instr("Constant", 1), Instr("Constant", 4), Instr("GetOrCreateVar", 0),
   Instr("GetOrCreateVar", 1), Instr("GetVar", 0), Instr("Pop", 0), Instr("Assign", 0)}

VarCodes == {code \o <<Halt>> : code \in UpTo(VarInstructions, MaxCode)}

StaleStart ==
  <<Instr("GetOrCreateVar", 0), Instr("GetOrCreateVar", 1), Instr("Pop", 0),
    Instr("Assign", 0)>>

StaleCodes ==
  {StaleStart \o <<Instr("GetOrCreateVar", 1), Halt>>,
   StaleStart \o <<Instr("GetVar", 1), Halt>>,
   StaleStart \o <<Instr("GetOrCreateVar", 1), Instr("Constant", 1), Instr("Assign", 0),
                   Instr("GetVar", 1), Halt>>}

\* Codes with calls: a Goto over two functions (a bare Return at index 1 and
\* a body of CallBodies at index 2), then at most MaxArgs pushes, the push
\* of a count, Call(2), what follows the call, and Halt
MaxArgs == 3

CallBodies ==
  {<<Instr("Return", 0)>>,
   <<Instr("GetVar", 3), Instr("Print", 0), Instr("Return", 0)>>,
   <<Instr("GetVar", 2), Instr("Print", 0), Instr("Return", 0)>>,
   <<Instr("Constant", 1), Instr("Constant", 4), Instr("Return", 0)>>,
   <<Instr("GetOrCreateVar", 0), Instr("Constant", 1), Instr("Assign", 0),
     Instr("Return", 0)>>,
   <<Instr("GetOrCreateVar", 0), Instr("GetOrCreateVar", 0), Instr("Return", 0)>>,
   <<Instr("Constant", 0), Instr("Call", 1), Instr("Return", 0)>>}

CallPushes == {Instr("Constant", 1), Instr("Constant", 6), Instr("GetOrCreateVar", 0)}

CallCounts == {Instr("Constant", n) : n \in 0..5}

CallRests == {<<>>, <<Instr("GetVar", 0), Instr("Print", 0)>>, <<Instr("Return", 0)>>}

CallCode(body, pushes, count, rest) ==
  <<Instr("Goto", Len(body) + 2), Instr("Return", 0)>> \o body \o pushes
    \o <<count, Instr("Call", 2)>> \o rest \o <<Halt>>

CallCodes ==
  {CallCode(body, pushes, count, rest) :
     body \in CallBodies, pushes \in UpTo(CallPushes, MaxArgs), count \in CallCounts,
     rest \in CallRests}

VmInit ==
  /\ source = ""
  /\ overflow_checks \in BOOLEAN
  /\ pc = "run"
  /\ result = "None"
  /\ scanner = Scanner_new
  /\ had_error = FALSE
  /\ panic_mode = FALSE
  /\ current = synthetic("")
  /\ previous = synthetic("")
  /\ labels = NoLabels
  /\ pending_labels = NoPending
  /\ \E code \in VarCodes \cup StaleCodes \cup CallCodes : chunk = VmChunk(code)
  /\ frames = <<Frame_default>>
  /\ ip = 0
  /\ stdout = ""
  /\ stderr = <<>>
  /\ earlier = <<>>
  /\ added = <<>>

VmSpec == VmInit /\ [][Step]_vars

\* run() is a loop without suspension points: it keeps executing
FairSpec == Spec /\ WF_vars(Next)

\* --------------------------------------------------------------- claims

HasCompileDiagnostic == \E n \in 1..Len(stderr) : stderr[n].stage = "compile"
HasRuntimeDiagnostic == \E n \in 1..Len(stderr) : stderr[n].stage = "runtime"
Compiled == pc \in {"run", "done"}
Jumps == {n \in 1..Len(chunk.code) : IsJump(chunk.code[n])}
IsPrefix(s, t) == Len(s) <= Len(t) /\ SubSeq(t, 1, Len(s)) = s

\* The 64-bit two's-complement value of the integer n
Wrapped(n) == CHOOSE r \in I64_MIN..I64_MAX : (r - n) % UMod = 0
ArithValue(a, op, b) ==
  CASE op = "+" -> a + b
    [] op = "-" -> a - b
    [] op = "*" -> a * b

\* C1: the one-line source `print a op b`, a and b I64 literals and op one
\* of + - *, compiles without error, and once interpret has returned it has
\* returned success with exactly the decimal text of the wrapped a op b on
\* standard output.
C1_PrintArith ==
  source \in ArithSources =>
    /\ ~had_error
    /\ pc = "done" =>
         /\ result = "Ok"
         /\ \A k \in ArithCases :
              source = PrintSrc(k[1], k[2], k[3], k[4], k[5]) =>
                stdout = Dec(Wrapped(ArithValue(k[1], k[3], k[4])))

C1_Witness ==
  /\ source = PrintSrc(I64_MAX, "", "+", 1, "")
  /\ pc = "done"
  /\ result = "Ok"
  /\ stdout = Dec(I64_MIN)

\* C2: the three-line source `x = a`, `y = x * b`, `println y` compiles
\* without error and prints a*b followed by a newline.
C2_AssignPrints ==
  source \in AssignSources =>
    /\ ~had_error
    /\ pc = "done" =>
         /\ result = "Ok"
         /\ \A a, b \in AssignLits :
              source = AssignSrc(a, b) => stdout = Dec(a * b) \o "\n"

\* The source with a = 10 and b = 2 has returned: both assignments and the
\* operand y were reported, nothing was printed.
C2_Witness ==
  /\ source = AssignSrc(10, 2)
  /\ pc = "done"
  /\ result = "CompileError"
  /\ stdout = ""
  /\ Len(stderr) = 3
  /\ stderr[1].message = "Invalid statement"
  /\ stderr[3].message = "Missing expression"

\* A jump to the label L on the first line, the declaration `L:` on the second
ForwardLabelSources ==
  {"goto L\nL:", "if true goto L\nL:", "ifFalse true goto L\nL:"}

\* C3: a source whose label is referenced before the line that declares it
\* compiles without error, the declaration is recorded, and in the finalized
\* chunk every jump's operand is the instruction index of the declaration.
C3_Backpatch ==
  (source \in ForwardLabelSources /\ Compiled) =>
    /\ ~had_error
    /\ "L" \in DOMAIN labels
    /\ \A n \in Jumps : chunk.code[n].arg = labels["L"]

\* The declaration line was reported, no label recorded, the jump not patched
C3_Witness ==
  /\ source = "goto L\nL:"
  /\ pc = "done"
  /\ result = "CompileError"
  /\ labels = NoLabels
  /\ chunk.code = <<Instr("Goto", 0), Halt>>

\* A jump to the label L in a source without the line `L:`
MissingLabelSources ==
  {"goto L", "if true goto L", "ifFalse true goto L", "print 1\ngoto L",
   "if false goto L\nprint 1"}

\* C4: a source that references a label declared nowhere does not compile:
\* a diagnostic is reported, no instruction is executed, and interpret
\* returns CompileError.
C4_MissingLabel ==
  source \in MissingLabelSources =>
    /\ pc # "run"
    /\ pc = "done" => (result = "CompileError" /\ HasCompileDiagnostic)

\* The missing label went unreported and run() has begun
C4_Witness ==
  /\ source = "goto L"
  /\ pc = "run"
  /\ ~had_error
  /\ stderr = <<>>
  /\ chunk.code = <<Instr("Goto", 0), Halt>>

\* C5: a `#` comment yields no token and no diagnostic: a line holding only
\* a comment compiles as an empty statement, and a comment after a statement
\* leaves the statement as it is.
C5_Comment ==
  /\ source \in {"# c", "print 1 # c"} => ~had_error /\ stderr = <<>>
  /\ (source = "# c" /\ Compiled) => chunk.code = <<Halt>>
  /\ (source = "print 1 # c" /\ pc = "done") => (result = "Ok" /\ stdout = "1")

\* The `#` of a comment-only source was reported as an unexpected character
C5_Witness ==
  /\ source = "# c"
  /\ pc = "done"
  /\ result = "CompileError"
  /\ stderr[1].message = "Unexpected character"

\* C6: when a source has compiled without error the chunk's last instruction
\* is Halt and the operand of every Goto and JumpIf is below the length of
\* the code; the chunk of the empty source is exactly [Halt].
C6_Finalized ==
  (Compiled /\ ~had_error /\ result # "Panic") =>
    /\ chunk.code # <<>>
    /\ chunk.code[Len(chunk.code)] = Halt
    /\ \A n \in Jumps : chunk.code[n].arg < Len(chunk.code)
    /\ source = "" => chunk.code = <<Halt>>

C6_Witness ==
  /\ source = "print 1\nif true goto L"
  /\ pc = "run"
  /\ ~had_error
  /\ Jumps # {}

\* C7: interpret returns CompileError exactly when a compile diagnostic was
\* reported; had_error is never cleared; and once a compile diagnostic was
\* reported no instruction is executed and standard output stays empty.
C7_CompileError ==
  /\ [](pc = "done" => (result = "CompileError" <=> HasCompileDiagnostic))
  /\ [](HasCompileDiagnostic => (had_error /\ pc # "run" /\ ip = 0 /\ stdout = ""))
  /\ [][had_error => had_error']_vars

C7_Witness ==
  /\ pc = "done"
  /\ result = "CompileError"
  /\ \E n \in 1..Len(chunk.code) : chunk.code[n].op = "Print"
  /\ stdout = ""

\* C8: panic_mode is false whenever the compiler begins parsing a statement.
C8_NoPanicAtStatement == pc = "compile" => ~panic_mode

\* Both diagnostics of `+ 1 @`, `+` are about line 1: the statement of line
\* 2 began with panic_mode set and its error went unreported.
C8_Witness ==
  /\ source = "+ 1 @\n+"
  /\ pc = "done"
  /\ Len(stderr) = 2
  /\ \A n \in 1..Len(stderr) : stderr[n].line = 1

\* C9: once a runtime error was reported run() has returned RuntimeError and
\* no further step is taken; the step that reports it prints nothing, and
\* what was printed before stays on standard output, in order.
C9_FirstErrorTerminal ==
  /\ [](HasRuntimeDiagnostic => (pc = "done" /\ result = "RuntimeError"))
  /\ [][~HasRuntimeDiagnostic]_vars
  /\ [][HasRuntimeDiagnostic' => stdout' = stdout]_vars
  /\ [][IsPrefix(stdout, stdout')]_vars

C9_Witness ==
  /\ pc = "done"
  /\ result = "RuntimeError"
  /\ stdout = "1"
  /\ \E n \in (ip + 1)..Len(chunk.code) : chunk.code[n].op = "Print"

\* C10: every call of interpret returns: success, CompileError or
\* RuntimeError.
C10_Returns == <>(pc = "done" /\ result \in {"Ok", "CompileError", "RuntimeError"})

\* run() is at a Goto whose operand is its own index, and its loop can take
\* another turn: the machine has not stopped, it repeats this state.
C10_Witness ==
  /\ pc = "run"
  /\ ip < Len(chunk.code)
  /\ chunk.code[ip + 1] = Instr("Goto", ip)
  /\ ENABLED Step

\* C11: no state persists between invocations. Every call of interpret(),
\* first or later, compiles into a new chunk and leaves compilation with
\* exactly one frame (empty operand stack, empty symbol table, no return
\* address) and ip = 0; and a call that returns gives the result and the
\* output that every earlier call of the same source gave on this machine,
\* the first of them on a machine just constructed, whatever calls were made
\* in between.
C11_NoStateBetweenCalls ==
  /\ pc = "compile" => frames = <<Frame_default>> /\ ip = 0
  /\ pc = "compile" /\ previous = synthetic("") => chunk = Chunk_new
  /\ pc = "done" =>
       \A i \in 1..Len(earlier) : earlier[i].source = source => earlier[i] = Returned

\* A third call repeats the first after a call that failed at run time
C11_Witness ==
  /\ pc = "done"
  /\ Len(earlier) = 2
  /\ earlier[1].source = source
  /\ earlier[2].result = "RuntimeError"
  /\ earlier[2].stdout # ""
  /\ result = "Ok"
  /\ stdout # ""

\* The instruction that the next turn of run() fetches, and the operand stack
\* it finds
Fetched == IF pc = "run" /\ ip < Len(chunk.code) THEN chunk.code[ip + 1].op ELSE "none"

Stack == frames[Len(frames)].stack

Left == Stack[Len(Stack) - 1]

Right == Stack[Len(Stack)]

Numeric(v) == v.type \in {"F64", "U64", "I64"}

DivisionByZero ==
  /\ Fetched \in {"Divide", "Modulo"}
  /\ Len(Stack) >= 2
  /\ Numeric(Left)
  /\ Numeric(Right) /\ Right.val = 0

\* C12: Divide and Modulo whose left operand is numeric (F64, U64 or I64)
\* and whose right operand is a numeric zero produce no quotient: both
\* operands are popped and nothing is pushed, the message 'Division by 0' is
\* reported, nothing is printed, and interpret returns RuntimeError.
C12_DivisionByZero ==
  [][DivisionByZero =>
       /\ pc' = "done"
       /\ result' = "RuntimeError"
       /\ Len(stderr') = Len(stderr) + 1
       /\ Last(stderr').message = "Division by 0"
       /\ stdout' = stdout
       /\ frames'[Len(frames')].stack = SubSeq(Stack, 1, Len(Stack) - 2)]_vars

\* `println 10u64 / 0u64` has returned
C12_Witness ==
  /\ source = "println 10u64 / 0u64"
  /\ pc = "done"
  /\ result = "RuntimeError"
  /\ Len(stderr) = 1
  /\ stderr[1].message = "Division by 0"
  /\ stdout = ""
  /\ Stack = <<>>

\* A binary instruction is fetched with operands of different variants
Mismatch ==
  /\ Fetched \in BinaryInstructions
  /\ Len(Stack) >= 2
  /\ Left.type # Right.type

\* Both operands are popped, nothing is pushed or printed, and the run ends
\* with RuntimeError
Rejected ==
  /\ pc' = "done"
  /\ result' = "RuntimeError"
  /\ Len(stderr') = Len(stderr) + 1
  /\ stdout' = stdout
  /\ frames'[Len(frames')].stack = SubSeq(Stack, 1, Len(Stack) - 2)

\* `<<` and `>>` take a U64 left operand with an I64 count
ShiftByI64 ==
  /\ Fetched \in {"ShiftLeft", "ShiftRight"}
  /\ Left.type = "U64"
  /\ Right.type = "I64"

PlusMessage == "Operator '+' not supported between values of type 'i64' and 'bool'"

LiteralType(n, suffix) ==
  CASE suffix = "u64" /\ ~n.dot -> IF n.whole <= U64_MAX THEN "U64" ELSE "none"
    [] suffix = "i64" /\ ~n.dot -> IF n.whole <= I64_MAX THEN "I64" ELSE "none"
    [] suffix = "f64" -> "F64"
    [] suffix = "" /\ ~n.dot -> IF n.whole <= I64_MAX THEN "I64" ELSE "none"
    [] suffix = "" /\ n.dot -> "F64"
    [] OTHER -> "none"

LiteralValue(n, type) ==
  IF type = "F64" THEN n.whole * FracScale + n.hundredths * (FracScale \div 100)
  ELSE n.whole

\* C14: a number literal becomes a U64 constant for suffix `u64` without a
\* dot, I64 for `i64` without a dot, F64 for `f64` with or without a dot, I64
\* for no suffix without a dot and F64 for no suffix with a dot; `u64` or
\* `i64` on a literal with a dot, any other suffix, and digits out of the
\* range of the type are a compile error that emits no constant.
C14_LiteralTyping ==
  \A n \in NumberTexts, suffix \in NumberSuffixes :
    source = "println " \o n.text \o suffix /\ pc \in {"run", "done"} =>
      IF LiteralType(n, suffix) = "none"
      THEN /\ had_error
           /\ HasCompileDiagnostic
           /\ result = "CompileError"
           /\ chunk.constants = <<>>
      ELSE /\ ~had_error
           /\ ~HasCompileDiagnostic
           /\ chunk.constants =
                <<[type |-> LiteralType(n, suffix),
                   val |-> LiteralValue(n, LiteralType(n, suffix))]>>
           /\ chunk.code = <<Instr("Constant", 0), Instr("Print", 1), Halt>>

\* `println 2.25` has printed its F64 constant
C14_Witness ==
  /\ source = "println 2.25"
  /\ pc = "done"
  /\ result = "Ok"
  /\ chunk.constants = <<F64(2 * FracScale + FracScale \div 4)>>
  /\ stdout = "2.25\n"

\* The instructions that follow the two operands of a binary operator
Opcodes(op) ==
  CASE op = "+" -> <<Instr("Add", 0)>>
    [] op = "-" -> <<Instr("Subtract", 0)>>
    [] op = "*" -> <<Instr("Multiply", 0)>>
    [] op = "/" -> <<Instr("Divide", 0)>>
    [] op = "%" -> <<Instr("Modulo", 0)>>
    [] op = "<<" -> <<Instr("ShiftLeft", 0)>>
    [] op = ">>" -> <<Instr("ShiftRight", 0)>>
    [] op = "==" -> <<Instr("Equal", 0)>>
    [] op = "!=" -> <<Instr("Equal", 0), Instr("Not", 0)>>
    [] op = "<" -> <<Instr("Less", 0)>>
    [] op = "<=" -> <<Instr("Greater", 0), Instr("Not", 0)>>
    [] op = ">" -> <<Instr("Greater", 0)>>
    [] op = ">=" -> <<Instr("Less", 0), Instr("Not", 0)>>

OperatorCompiled(op) ==
  /\ ~had_error
  /\ ~HasCompileDiagnostic
  /\ chunk.code = <<Instr("Constant", 0), Instr("Constant", 1)>> \o Opcodes(op)
                    \o <<Instr("Print", 1), Halt>>

OperatorSource(op) == \E a \in {"7", "2"}, b \in {"7", "2"} : source = "println " \o a \o " " \o op \o " " \o b

\* C15: each of the thirteen binary operators + - * / % << >> == != < <= >
\* >= is accepted between two operands and compiles to the load of the left
\* operand, the load of the right operand, and the operator's instructions.
C15_Operators ==
  \A op \in OperatorLexemes : OperatorSource(op) /\ Compiled => OperatorCompiled(op)

\* The ten operators that have an infix rule compile as stated
C15_RuledOperators ==
  \A op \in OperatorLexemes \ {"%", "<<", ">>"} :
    OperatorSource(op) /\ Compiled => OperatorCompiled(op)

\* `println 7 % 2` is refused by the compiler
C15_Witness ==
  /\ source = "println 7 % 2"
  /\ pc = "done"
  /\ result = "CompileError"
  /\ HasCompileDiagnostic
  /\ \A n \in 1..Len(chunk.code) : chunk.code[n].op # "Modulo"

\* C16: a character literal is a valid operand: for any single character c
\* other than the quote, `println 'c'` compiles without error and prints c
\* followed by a newline.
C16_CharLiteral ==
  \A c \in LiteralChars :
    source = "println '" \o c \o "'" =>
      /\ ~had_error
      /\ ~HasCompileDiagnostic
      /\ pc = "done" => result = "Ok" /\ stdout = c \o "\n"

\* `println 'a'` is refused by the compiler: the Char token is scanned but
\* no expression starts with it
C16_Witness ==
  /\ source = "println 'a'"
  /\ pc = "done"
  /\ result = "CompileError"
  /\ Len(stderr) = 1
  /\ stderr[1].message = "Missing expression"
  /\ stderr[1].at = " at ''a''"
  /\ stdout = ""

\* The program is `before if !X goto L after`
IsIfNot(before, X, L, after) == source = IfProgram(before, "if !", X, L, after)

\* The compiler after it compiled `before ifFalse X goto L after`
IfFalseCompiled(before, X, L, after) == compile(IfProgram(before, "ifFalse ", X, L, after))

\* compile() gave `before if !X goto L after` what it gives the program
\* with `ifFalse X`: the result, the diagnostics, the chunk (code, constants
\* and lines) and the jumps awaiting their label
SameCompiled(before, X, L, after) ==
  /\ Compiled =>
       /\ chunk = IfFalseCompiled(before, X, L, after).chunk
       /\ had_error = IfFalseCompiled(before, X, L, after).had_error
       /\ pending_labels = IfFalseCompiled(before, X, L, after).pending_labels
       /\ IsPrefix(IfFalseCompiled(before, X, L, after).stderr, stderr)
  /\ pc = "run" => stderr = IfFalseCompiled(before, X, L, after).stderr

\* The machine has made the move that run() makes from the same frames, ip
\* and streams on the chunk m.chunk
SameMove(m) ==
  /\ frames' = m.frames
  /\ ip' = m.ip
  /\ stdout' = m.stdout
  /\ stderr' = m.stderr
  /\ pc' = IF m.status = "running" THEN "run" ELSE "done"
  /\ result' = IF m.status = "running" THEN result ELSE m.status

\* C17: for a boolean literal X and a label L, `ifFalse X goto L` and
\* `if !X goto L` behave alike in any program: compile() returns the same
\* for both, and every turn of run() on the one program is the turn that
\* run() makes on the chunk of the other from the same machine state (the
\* same jump decision, output and error).
C17_IfFalseIsIfNot ==
  /\ [](\A before \in IfBefore, X \in {"true", "false"}, L \in IfLabels, after \in IfAfter :
          IsIfNot(before, X, L, after) => SameCompiled(before, X, L, after))
  /\ [][\A before \in IfBefore, X \in {"true", "false"}, L \in IfLabels, after \in IfAfter :
          IsIfNot(before, X, L, after) /\ pc = "run" =>
            \E m \in {run_step([TheMachine EXCEPT
                                  !.chunk = IfFalseCompiled(before, X, L, after).chunk],
                               overflow_checks)} : SameMove(m)]_vars

\* `print 1`, then `if !false goto L`: the jump was taken and 1 printed again
C17_Witness ==
  /\ IsIfNot("print 1\n", "false", "L", "\nprint 2")
  /\ pc = "run"
  /\ chunk.code = <<Instr("Constant", 0), Instr("Print", 0), Instr("False", 0), Instr("Not", 0),
                    Instr("JumpIf", 0), Instr("Constant", 1), Instr("Print", 0), Halt>>
  /\ stdout = "11"

\* The offsets of the instructions that begin a line of the program. An
\* error-free program has at most one statement on a line, so these are the
\* first instructions of its statements (and, on a line of its own, the Halt
\* that end() adds).
StatementStarts == {chunk.lines[k].offset : k \in 1..Len(chunk.lines)}

\* C18: in every run of a program compiled without error, the operand stack
\* is empty whenever the first instruction of a statement is fetched, after
\* a taken jump as well, and when Halt is executed.
C18_StackDiscipline ==
  /\ pc = "run" /\ (ip \in StatementStarts \/ Fetched = "Halt") => Stack = <<>>
  /\ pc = "done" /\ result = "Ok" => Stack = <<>>

\* A jump was taken after a statement printed: run() is back at the first
\* statement, of a program of two statements
C18_Witness ==
  /\ pc = "run"
  /\ ~had_error
  /\ ip = 0
  /\ stdout # ""
  /\ Len(chunk.lines) = 2
  /\ chunk.code[Len(chunk.code) - 1].op = "JumpIf"
  /\ Stack = <<>>

\* C19: in every chunk that compile() produces, with or without compile
\* errors, the line of an instruction is not smaller than the line of the
\* instruction before it, get_line(i) >= get_line(i - 1) for 0 < i <
\* code.len(); and the assertion of Chunk::write, that the line of a new
\* instruction is not smaller than that of the last, never fails while a
\* source is compiled.
C19_LinesNonDecreasing ==
  /\ result # "Panic"
  /\ chunk.code # <<>> =>
       \A i \in 1..(Len(chunk.code) - 1) : get_line(chunk, i) >= get_line(chunk, i - 1)

\* A compiled chunk of three lines or more whose last instruction is on a
\* later line than its first, from a program with a compile error
C19_Witness ==
  /\ pc = "done"
  /\ result = "CompileError"
  /\ Len(chunk.lines) >= 3
  /\ get_line(chunk, Len(chunk.code) - 1) > get_line(chunk, 0)

\* C20: add_name is idempotent. Two calls add_name(N) on a chunk, whatever
\* calls of add_name are made between them, return the same index; the
\* later call leaves the name pool (the names and their reverse map) as it
\* was; and get_name of the index returned is N.
C20_AddNameIdempotent ==
  /\ [](\A i \in 1..Len(added), j \in 1..Len(added) :
          added[i].name = added[j].name => added[i].index = added[j].index)
  /\ [](\A i \in 1..Len(added) : get_name(chunk, added[i].index) = added[i].name)
  /\ [][Len(added') > Len(added)
          /\ (\E i \in 1..Len(added) : added[i].name = Last(added').name)
        => chunk' = chunk]_vars

\* add_name("args"), add_name("x"), add_name("args"): indices 0, 1, 0 and a
\* pool of two names
C20_Witness ==
  /\ Len(added) = 3
  /\ added[1] = [name |-> "args", index |-> 0]
  /\ added[2] = [name |-> "x", index |-> 1]
  /\ added[3] = [name |-> "args", index |-> 0]
  /\ chunk.names = <<"args", "x">>

\* The characters of the source from position `from` up to `to` (0-based,
\* `to` excluded) are blanks that next_token skips
Skipped(from, to) ==
  \A n \in from..(to - 1) : is_whitespace(CharAt(source, n)) /\ CharAt(source, n) # "\n"

\* C21: repeated calls of next_token yield the tokens in source order: a
\* call skips blanks only, its token starts where the skipping ended and
\* ends where the scanner stands, a token other than Error has that piece of
\* the source as lexeme, and Eof is returned at the end of the source only.
\* Once Eof has been returned, every later call returns Eof and leaves the
\* scanner's position and line counter as they are.
C21_TokensInOrder ==
  /\ [][/\ scanner.current <= scanner'.start
        /\ Skipped(scanner.current, scanner'.start)
        /\ scanner'.start <= scanner'.current
        /\ current'.kind # "Error" =>
             current'.lexeme = SubSeq(source, scanner'.start + 1, scanner'.current)
        /\ current'.kind = "Eof" <=> scanner'.start = Len(source)]_vars
  /\ [][current.kind = "Eof" =>
          /\ current'.kind = "Eof"
          /\ scanner'.current = scanner.current
          /\ scanner'.line = scanner.line]_vars

\* Eof was returned twice at the end of a source of three lines
C21_Witness ==
  /\ source = "1\n2\n3\n"
  /\ previous.kind = "Eof"
  /\ current.kind = "Eof"
  /\ scanner.current = Len(source)
  /\ scanner.line = 4

\* The line given to Chunk::write with the instruction at index n: the
\* line of the last entry of the line table that starts at or before n
WrittenLine(n) ==
  chunk.lines[CHOOSE k \in 1..Len(chunk.lines) :
                /\ chunk.lines[k].offset <= n
                /\ \A j \in 1..Len(chunk.lines) : chunk.lines[j].offset <= n => j <= k].line

\* C22: when an instruction raises a runtime error, the line reported in
\* `[line N] in script` is the source line of the statement the instruction
\* was compiled from, whatever the instruction and whatever follows it in
\* the chunk.
C22_ErrorLine ==
  [][~HasRuntimeDiagnostic /\ HasRuntimeDiagnostic' /\ ip < Len(chunk.code) =>
       Last(stderr').line = WrittenLine(ip)]_vars

\* `if 1 goto L` on line 2 has failed and line 3 was reported
C22_Witness ==
  /\ source = "print 2\nif 1 goto L\nprint 3"
  /\ pc = "done"
  /\ result = "RuntimeError"
  /\ chunk.code[ip].op = "JumpIf"
  /\ WrittenLine(ip - 1) = 2
  /\ Len(stderr) = 1
  /\ stderr[1].line = 3

\* The indices (1-based) of the instructions written for the k-th line of
\* the line table
LineCode(k) ==
  {n \in 1..Len(chunk.code) :
     /\ chunk.lines[k].offset < n
     /\ k < Len(chunk.lines) => n <= chunk.lines[k + 1].offset}

BinaryCount(k) == Cardinality({n \in LineCode(k) : chunk.code[n].op \in BinaryInstructions})

\* compile() has returned an error, with a diagnostic
Refused ==
  /\ had_error
  /\ HasCompileDiagnostic
  /\ pc = "done"
  /\ result = "CompileError"

\* C23: a statement admits at most one binary operator: a second binary
\* operator after `operand binop operand` on the same line is reported with
\* a compile diagnostic and interpret returns CompileError; and no statement
\* that compiles without error holds two binary operators.
C23_OneBinaryOperator ==
  /\ \A a \in ExprOperands, op \in ExprBinary, b \in ExprOperands, op2 \in ExprBinary,
        c \in ExprOperands :
       source = Binary2(a, op, b, op2, c) /\ Compiled => Refused
  /\ Compiled /\ ~had_error => \A k \in 1..Len(chunk.lines) : BinaryCount(k) <= 1

\* `print 1 + 1 * 1` was refused at the second operator
C23_Witness ==
  /\ source = Binary2("1", "+", "1", "*", "1")
  /\ Refused
  /\ Len(stderr) = 1
  /\ stderr[1].at = " at '*'"

\* C24: every statement that compiles without error computes at most one
\* operator: an expression that chains two unary operators, or combines a
\* unary operator with a binary operator, is rejected with a compile error.
C24_OneOperator ==
  /\ \A u \in ExprUnary, v \in ExprUnary, a \in ExprOperands :
       source = Unary2(u, v, a) /\ Compiled => Refused
  /\ \A u \in ExprUnary, a \in ExprOperands, op \in ExprBinary, b \in ExprOperands :
       /\ source = UnaryBinary(u, a, op, b) /\ Compiled => Refused
       /\ source = BinaryUnary(a, op, u, b) /\ Compiled => Refused

\* `print - - 1` has compiled to two Negate instructions and printed 1
C24_Witness ==
  /\ source = Unary2("-", "-", "1")
  /\ pc = "done"
  /\ result = "Ok"
  /\ ~HasCompileDiagnostic
  /\ chunk.code = <<Instr("Constant", 0), Instr("Negate", 0), Instr("Negate", 0),
                    Instr("Print", 0), Halt>>
  /\ stdout = "1"

\* The position (0-based) of the first newline character at or after
\* position p of the source, Len(source) when there is none
NewLineAfter(p) ==
  IF \E k \in p..(Len(source) - 1) : CharAt(source, k) = "\n"
  THEN CHOOSE k \in p..(Len(source) - 1) :
         /\ CharAt(source, k) = "\n"
         /\ \A j \in p..(k - 1) : CharAt(source, j) # "\n"
  ELSE Len(source)

\* The turn of the loop of compile() that is being taken wrote a diagnostic
RecordsError == pc = "compile" /\ Len(stderr') > Len(stderr)

\* C25: error recovery is line-exact: a statement that records an error,
\* with synchronize, consumes tokens up to the first NewLine that ends the
\* statement's line and no token of the following line: the compiler's
\* current token is then the first token after that newline (Eof when the
\* line is the last).
C25_LineExact ==
  [][RecordsError =>
       \E e \in {NewLineAfter(scanner.start)} :
         IF e = Len(source) THEN current'.kind = "Eof"
         ELSE /\ scanner'.start > e
              /\ Skipped(e + 1, scanner'.start)]_vars

\* The statement `print -` has taken `- 1` of the second line with it: one
\* diagnostic, and the compiler stands at the first token of line 3
C25_Witness ==
  /\ source = "print -\n- 1\nprint 1"
  /\ pc = "compile"
  /\ Len(stderr) = 1
  /\ stderr[1].message = "Missing expression"
  /\ previous.kind = "NewLine"
  /\ current.kind = "Print"
  /\ current.line = 3
  /\ scanner.start = 12

\* The number of newline characters before position p (0-based) of the source
NewLinesBefore(p) == Cardinality({k \in 0..(p - 1) : CharAt(source, k) = "\n"})

\* C26: the NewLine token carries the line it ends: its line field is 1 plus
\* the number of newline characters that precede its own newline character.
C26_NewLineLine ==
  current.kind = "NewLine" => current.line = 1 + NewLinesBefore(scanner.start)

\* The NewLine that ends line 1 of "1\n2\n3\n" was returned after the
\* literal 1 of line 1, with line 2
C26_Witness ==
  /\ source = "1\n2\n3\n"
  /\ current.kind = "NewLine"
  /\ scanner.start = 1
  /\ previous = Token("Number", "1", 1)
  /\ current.line = 2

\* The token that next_token returned last starts with a single quote
QuoteToken == scanner.start < scanner.current /\ CharAt(source, scanner.start) = "'"

\* That token is an opening quote, one character and a closing quote
OneCharacter ==
  /\ scanner.current = scanner.start + 3
  /\ CharAt(source, scanner.start + 1) # "'"
  /\ CharAt(source, scanner.start + 2) = "'"

\* C27: the scanner yields a Char token only for an opening quote, exactly
\* one character and a closing quote; every other input that starts with a
\* single quote (no character between the quotes, more than one, or no
\* closing quote before the end of the input) yields an Error token.
C27_CharOrError ==
  /\ current.kind = "Char" => QuoteToken
  /\ QuoteToken =>
       /\ current.kind \in {"Char", "Error"}
       /\ current.kind = "Char" <=> OneCharacter

\* The source '' was scanned as a Char token with the lexeme ''
C27_Witness ==
  /\ source = "''"
  /\ QuoteToken
  /\ current = Token("Char", "''", 1)
  /\ scanner.current = 2

\* The instructions that run() hands to Value's operators
ArithmeticInstructions ==
  {"Add", "Subtract", "Multiply", "Divide", "Modulo", "ShiftLeft", "ShiftRight",
   "Negate", "Not"}

\* The step goes on, or run() returns a runtime error that it has reported
Returns ==
  /\ result' \in {"None", "RuntimeError"}
  /\ (result' = "RuntimeError") => HasRuntimeDiagnostic'

\* C28: value arithmetic is total: whatever the operator and the operands,
\* the extreme integers included, the operation returns a Value or an error
\* string: the step of an arithmetic instruction goes on or returns a
\* runtime error, and never aborts the interpreter.
C28_ArithmeticTotal == [][(Fetched \in ArithmeticInstructions) => Returns]_vars

\* The Divide of the I64 minimum by I64 -1 has aborted the process: nothing
\* was printed and no runtime error was reported
C28_Witness ==
  /\ chunk = binary_chunk(I64(I64_MIN), I64(-1), "Divide")
  /\ pc = "done"
  /\ result = "Panic"
  /\ ip = 3
  /\ stdout = ""
  /\ stderr = <<>>

\* A call of add_constant on the chunk is being made
Adds == pc = "new" /\ Len(added') > Len(added)

\* C29: the constant pool is bounded at 65 535 values: add_constant returns
\* the previous pool size and appends the value while the pool holds fewer
\* than 65 535 values; once the pool holds 65 535 values it returns the
\* overflow error and leaves the pool as it is, and the compiler reports
\* that as a compile error: no call and no statement takes the pool beyond
\* 65 535 values.
C29_PoolBound ==
  /\ [][Adds =>
          IF Len(chunk.constants) < U16_MAX
          THEN /\ Last(added') = Len(chunk.constants)
               /\ chunk'.constants = Append(chunk.constants, I64(7))
          ELSE /\ Last(added') = -1
               /\ chunk' = chunk]_vars
  /\ [][Len(chunk.constants) <= U16_MAX => Len(chunk'.constants) <= U16_MAX]_vars
  /\ [][pc = "compile" /\ Len(chunk.constants) = U16_MAX /\ previous'.kind = "Number" =>
          had_error' /\ HasCompileDiagnostic']_vars

\* A pool of 65 535 values took one more value: add_constant returned the
\* index 65 535 and the pool holds 65 536 values
C29_Witness ==
  /\ pc = "new"
  /\ added # <<>>
  /\ Last(added) = U16_MAX
  /\ Len(chunk.constants) = U16_MAX + 1
  /\ chunk.constants[U16_MAX + 1] = I64(7)

\* get_line was called, with an index that write had returned
GotLine == added # <<>> /\ Last(added).op = "get_line"

\* C30: on a chunk built by calls of write with non-decreasing lines,
\* get_line(i) for i < code.len() returns the line given to the call of
\* write that returned the index i, which is the line of the greatest entry
\* of the line table whose offset is at most i.
C30_GetLine ==
  GotLine =>
    /\ added[Last(added).arg + 1] = Call("write", Last(added).ret, Last(added).arg)
    /\ Last(added).ret = WrittenLine(Last(added).arg)

\* Two instructions written with the lines 1 and 2: get_line(1) returned 1
C30_Witness ==
  /\ added = <<Call("write", 1, 0), Call("write", 2, 1), Call("get_line", 1, 1)>>
  /\ chunk.lines = <<LineStart(0, 1), LineStart(1, 2)>>
  /\ Len(chunk.code) = 2

\* The operand of the instruction that the next turn of run() fetches
FetchedArg == chunk.code[ip + 1].arg

SameValue(a, b) == a.type = b.type /\ a.val = b.val

\* Call is fetched with U64(n) on top of the stack and n values or more
\* below it
CallReady ==
  /\ Fetched = "Call"
  /\ Stack # <<>>
  /\ IF Last(Stack).type = "U64" THEN Last(Stack).val <= Len(Stack) - 1 ELSE FALSE

\* The n values that call() removes from below the count, lowest first
Arguments == SubSeq(Stack, Len(Stack) - Last(Stack).val, Len(Stack) - 1)

Callee == frames'[Len(frames')]

\* The index that the name has in the chunk after the step
NameIndex(name) == names_rev(chunk', name)

\* The callee's stack is the count and then the n arguments in some order
HoldsArguments(n) ==
  /\ Len(Callee.stack) = n + 1
  /\ SameValue(Callee.stack[1], U64(n))
  /\ \E f \in [1..n -> 1..n] :
       /\ \A j, k \in 1..n : f[j] = f[k] => j = k
       /\ \A j \in 1..n : SameValue(Callee.stack[1 + j], Arguments[f[j]])

\* The step of call() on U64(n) and n values
Calls(n) ==
  /\ pc' = "run"
  /\ Len(frames') = Len(frames) + 1
  /\ \A j \in 1..(Len(frames) - 1) : frames'[j] = frames[j]
  /\ frames'[Len(frames)].st = frames[Len(frames)].st
  /\ frames'[Len(frames)].ra = frames[Len(frames)].ra
  /\ frames'[Len(frames)].stack = SubSeq(Stack, 1, Len(Stack) - n - 1)
  /\ Callee.ra = Some(ip + 1)
  /\ NameIndex("argc") \in DOMAIN Callee.st
  /\ Callee.st[NameIndex("argc")] = 0
  /\ HoldsArguments(n)
  /\ (NameIndex("args") \in DOMAIN Callee.st) <=> n > 0
  /\ n > 0 => Callee.st[NameIndex("args")] = 1
  /\ ip' = FetchedArg

\* The step ends run() with a runtime error that it has reported
Fails == result' = "RuntimeError" /\ pc' = "done" /\ HasRuntimeDiagnostic'

\* C31: Call(t) at index c with U64(n) on top of the stack and n values or
\* more below it removes those n + 1 values from the caller and pushes one
\* frame whose return address is c + 1, in which `argc` names a slot that
\* holds U64(n) and `args`, if and only if n > 0, names the next slot, the
\* first of the n arguments, and sets ip to t. A top value that is not a
\* U64, or fewer than n values below it, is a runtime error.
C31_Call ==
  [][(Fetched = "Call") =>
       IF CallReady THEN Calls(Last(Stack).val) ELSE Fails]_vars

\* Call(2) at index 7 took U64(2) and the two values below it: the caller
\* keeps its first value, the callee has the count and the two arguments
C31_Witness ==
  /\ pc = "run"
  /\ Len(frames) = 2
  /\ ip = 2
  /\ frames[1].stack = <<U64(1)>>
  /\ frames[2].ra = Some(8)
  /\ frames[2].stack = <<U64(2), U64(1), Char("a")>>
  /\ frames[2].st = (2 :> 1) @@ (3 :> 0)
  /\ chunk.names = <<"x", "y", "args", "argc">>

\* The frames below the current one are as they were
CallersKept == \A j \in 1..(Len(frames) - 1) : frames'[j] = frames[j]

\* C32: Return in a called frame pops exactly one frame and sets ip to that
\* frame's return address, the index after the call site; the caller's
\* operand stack and symbol table are then as call() left them, since no
\* step of the callee touches the frames below its own, and what the callee
\* pushed is gone with its frame. Return in the outermost frame ends the
\* run with success.
C32_Return ==
  /\ [][pc = "run" /\ Len(frames) >= 1 => CallersKept]_vars
  /\ [][(Fetched = "Return") /\ Len(frames) >= 2 =>
          /\ frames' = Front(frames)
          /\ Last(frames).ra = Some(ip')
          /\ chunk.code[ip'].op = "Call"
          /\ pc' = "run"]_vars
  /\ [][(Fetched = "Return") /\ Len(frames) = 1 =>
          /\ pc' = "done"
          /\ result' = "Ok"
          /\ stderr' = stderr]_vars

\* The callee that pushed two values has returned to index 10, after the
\* Call at index 9: the caller's stack holds the one value that call() left
C32_Witness ==
  /\ pc = "run"
  /\ Len(chunk.code) >= 10
  /\ chunk.code[3] = Instr("Constant", 1)
  /\ chunk.code[4] = Instr("Constant", 4)
  /\ chunk.code[5] = Instr("Return", 0)
  /\ chunk.code[10] = Instr("Call", 2)
  /\ ip = 10
  /\ frames = <<[stack |-> <<U64(1)>>, st |-> EmptySt, ra |-> None]>>
  /\ chunk.names = <<"x", "y", "args", "argc">>

\* The symbol table of the current frame
Table == frames[Len(frames)].st

\* The current frame becomes one with this stack and this symbol table, the
\* other frames stay, and run() goes on with the next instruction
Becomes(stack, st) ==
  /\ frames' = [frames EXCEPT ![Len(frames)] = [@ EXCEPT !.stack = stack, !.st = st]]
  /\ ip' = ip + 1
  /\ pc' = "run"

\* C33: GetOrCreateVar(n) creates a slot at most once per name and frame:
\* with n absent from the frame's symbol table it pushes a slot holding
\* U64(0), maps n to the slot's index and pushes Addr(slot), two values in
\* all; with n present it pushes Addr(table[n]) only and leaves the mapping
\* and the slots as they are. No step takes a name out of the table of the
\* frame it runs in or maps it to another slot.
C33_GetOrCreateVar ==
  /\ [][(Fetched = "GetOrCreateVar") =>
          IF FetchedArg \in DOMAIN Table
          THEN Becomes(Append(Stack, Addr(Table[FetchedArg])), Table)
          ELSE Becomes(Stack \o <<U64(0), Addr(Len(Stack))>>,
                       (FetchedArg :> Len(Stack)) @@ Table)]_vars
  /\ [][pc = "run" /\ pc' = "run" /\ Len(frames') = Len(frames) =>
          \A n \in DOMAIN Table :
            /\ n \in DOMAIN frames'[Len(frames)].st
            /\ frames'[Len(frames)].st[n] = Table[n]]_vars

\* GetOrCreateVar(x), Constant, Assign, GetOrCreateVar(x): the second use of
\* x pushed the address of the slot of the first, which holds U64(1)
C33_Witness ==
  /\ pc = "run"
  /\ ip = 4
  /\ chunk.code[1] = Instr("GetOrCreateVar", 0)
  /\ chunk.code[4] = Instr("GetOrCreateVar", 0)
  /\ frames = <<[stack |-> <<U64(1), Addr(0)>>, st |-> (0 :> 0), ra |-> None]>>

\* The instruction executed j turns before, when run() came here without a
\* jump (0-based index ip - j)
Executed(j) == chunk.code[ip - j + 1]

\* GetOrCreateVar(n) and the push of a constant have just been executed
Addressed ==
  /\ pc = "run"
  /\ ip >= 2
  /\ Executed(2).op = "GetOrCreateVar"
  /\ Executed(1).op = "Constant"

\* GetOrCreateVar(n), the push of a constant and Assign have just been
\* executed
Assigned ==
  /\ pc = "run"
  /\ ip >= 3
  /\ Executed(3).op = "GetOrCreateVar"
  /\ Executed(2).op = "Constant"
  /\ Executed(1).op = "Assign"

\* The stack without its two topmost values and with v in slot k
Stored(k, v) == [Front(Front(Stack)) EXCEPT ![k + 1] = v]

\* C34: after GetOrCreateVar(n), the push of a value v and Assign, the
\* stack has lost the value and the address and only the slot table[n] has
\* changed, to v; a GetVar(n) that follows in the same frame pushes v.
\* Assign whose second popped operand is not an Addr, and GetVar of a name
\* that the frame's symbol table does not hold, are runtime errors.
C34_RoundTrip ==
  /\ [][Addressed /\ (Fetched = "Assign") =>
          Becomes(Stored(Table[Executed(2).arg], get_constant(chunk, Executed(1).arg)),
                  Table)]_vars
  /\ [][Assigned /\ (Fetched = "GetVar") /\ FetchedArg = Executed(3).arg =>
          Becomes(Append(Stack, get_constant(chunk, Executed(2).arg)), Table)]_vars
  /\ [][(Fetched = "Assign") /\ Len(Stack) >= 2 /\ Stack[Len(Stack) - 1].type # "Addr" =>
          Fails]_vars
  /\ [][(Fetched = "GetVar") /\ FetchedArg \notin DOMAIN Table => Fails]_vars

\* The slot of y was popped; GetOrCreateVar(y), Constant, Assign then ended
\* the run at the Assign with a runtime error
C34_Witness ==
  /\ pc = "done"
  /\ result = "RuntimeError"
  /\ ip = 7
  /\ Len(chunk.code) >= 7
  /\ SubSeq(chunk.code, 1, 4) = StaleStart
  /\ Executed(3) = Instr("GetOrCreateVar", 1)
  /\ Executed(1) = Instr("Assign", 0)
  /\ frames[1].st = (0 :> 0) @@ (1 :> 2)
  /\ frames[1].stack = <<U64(0)>>
  /\ Last(stderr).message = "Assignment target points to invalid stack address"

\* C35: at any point of the execution, whatever the chunk and the
\* instructions executed, every Addr(k) on an operand stack has k less than
\* the length of that stack.
C35_AddrInStack ==
  \A f \in 1..Len(frames) :
    \A j \in 1..Len(frames[f].stack) :
      frames[f].stack[j].type = "Addr" => frames[f].stack[j].val < Len(frames[f].stack)

\* GetOrCreateVar(x), GetOrCreateVar(y), Pop, Assign left a stack of one
\* value and y mapped to slot 2: GetOrCreateVar(y) then pushed Addr(2)
C35_Witness ==
  /\ pc = "run"
  /\ ip = 5
  /\ Len(chunk.code) >= 5
  /\ SubSeq(chunk.code, 1, 4) = StaleStart
  /\ chunk.code[5] = Instr("GetOrCreateVar", 1)
  /\ frames = <<[stack |-> <<U64(0), Addr(2)>>, st |-> (0 :> 0) @@ (1 :> 2), ra |-> None]>>

\* C39: Call passes the arguments in reverse push order: when the caller
\* pushed a1, ..., an and then U64(n), the callee's stack after Call is
\* U64(n), an, ..., a1, and the slot that `args` names holds an, the
\* argument pushed last.
C39_ArgumentsReversed ==
  [][CallReady =>
       /\ pc' = "run"
       /\ Len(Callee.stack) = Last(Stack).val + 1
       /\ SameValue(Callee.stack[1], Last(Stack))
       /\ \A j \in 1..Last(Stack).val :
            SameValue(Callee.stack[1 + j], Arguments[Last(Stack).val + 1 - j])
       /\ Last(Stack).val > 0 =>
            SameValue(Callee.stack[Callee.st[NameIndex("args")] + 1],
                      Stack[Len(Stack) - 1])]_vars

\* The caller pushed U64(1), 'a', a slot and its address, then U64(3): the
\* callee has the count, the address, the slot's value and 'a'
C39_Witness ==
  /\ pc = "run"
  /\ Len(frames) = 2
  /\ ip = 2
  /\ frames[1].stack = <<U64(1)>>
  /\ frames[1].st = (0 :> 2)
  /\ frames[2].stack = <<U64(3), Addr(2), U64(0), Char("a")>>
  /\ frames[2].st = (2 :> 1) @@ (3 :> 0)

CompileReturned == pc = "run" \/ (pc = "done" /\ result = "CompileError")

\* The token the compiler stands at starts later in the source than the one
\* it stood at before
Consumes == scanner.start < scanner'.start /\ scanner'.start <= Len(source)

\* C37: compilation terminates on every finite source. The first advance()
\* and every turn of the loop of compile() (a statement, with the Error
\* tokens advance() skips and with synchronize()) leave the scanner at most at
\* the end of the source, every turn of the loop moves the compiler to a token
\* that starts later in the source, and compile() returns.
C37_CompileTerminates ==
  /\ [][(pc = "new") => scanner'.current > 0 \/ current'.kind = "Eof"]_vars
  /\ [][(pc = "compile" /\ current.kind # "Eof") => Consumes]_vars
  /\ <>CompileReturned

C37_Witness ==
  /\ source = "@ - \n 1 "
  /\ pc = "done"
  /\ result = "CompileError"
  /\ scanner.start = Len(source)
  /\ current.kind = "Eof"
  /\ Len(stderr) >= 1
  /\ stderr[1].message = "Unexpected character"

\* C38: while a program that compiled without error runs, the machine has
\* exactly one frame at every fetch of an instruction and the stack of that
\* frame holds at most two values, also after the program jumped back.
C38_OneFrameTwoValues ==
  pc = "run" /\ ~had_error => Len(frames) = 1 /\ Len(Stack) <= 2

\* The second turn of a program that jumps back to its start: the two
\* operands of its binary operator are on the stack again
C38_Witness ==
  /\ pc = "run"
  /\ ~had_error
  /\ stdout # ""
  /\ Len(frames) = 1
  /\ Len(Stack) = 2
  /\ ip < Len(chunk.code)
  /\ chunk.code[ip + 1].op \notin {"Constant", "Print", "Goto", "JumpIf", "Halt"}
  /\ \E n \in 1..Len(chunk.code) : chunk.code[n].op \in {"Goto", "JumpIf"}

====
